---- MODULE Spec2Model ----
(***************************************************************************)
(* Header detection of the invoice template analyser                       *)
(* (config_data_extractor/src/analyzers/header_detector.py) and the        *)
(* column mapping and template state of the invoice generator.             *)
(*                                                                         *)
(* Text is modelled as a sequence of one-character strings, so that        *)
(* lower(), strip(), replace(), isdigit(), len() and the `in` substring    *)
(* test are computed character by character as Python computes them.       *)
(***************************************************************************)
EXTENDS Integers, Sequences, FiniteSets, TLC

\* ----------------------------------------------------------------- state

\* worksheet, quantity_mode, mapping_config, header_keywords: the sheet and
\* the detector built for it.  pc: where the caller is.  The others hold
\* what the last call did.
VARIABLES worksheet, quantity_mode, mapping_config, header_keywords, pc,
          header_row_found, is_double_header, header_matches, returned,
          calls, start_row

\* the arguments of a call of _matches_keyword and what it returned
VARIABLES match_cell, match_keyword, match_result

\* the identifier lists a column mapping is derived from, the mapping handed
\* to set_column_mapping, the mapping installed and the error raised
VARIABLES template_ids, output_ids, requested_mapping, column_mapping,
          mapping_error

\* the template sheet, the output sheet, the two captured blocks, the
\* column count of the output, the data rows written, and how often each
\* block was captured and replayed
VARIABLES template_ws, layout, output_ws, header_state, footer_state,
          actual_num_cols, data_rows, captures, replays

\* the tables of a sheet built one after another: the arguments of each
\* build, the tables built, the row after the last one, and the blocks
\* written so far
VARIABLES tables, table_index, current_row, build_log

\* a run of main: the sheets to process and the one reached, the two
\* lists of sheet names, the flag of success, whether the output workbook
\* was saved, and the status and error message of the metadata
VARIABLES sheets_to_process, sheet_index, sheets_processed, sheets_failed,
          processing_successful, saved, status, error_msg

matcher == <<match_cell, match_keyword, match_result>>

layouter == <<tables, table_index, current_row, build_log>>

runner == <<sheets_to_process, sheet_index, sheets_processed, sheets_failed,
            processing_successful, saved, status, error_msg>>

remapper == <<template_ids, output_ids, requested_mapping, column_mapping,
              mapping_error>>

builder == <<template_ws, layout, output_ws, header_state, footer_state,
             actual_num_cols, data_rows, captures, replays>>

vars == <<worksheet, quantity_mode, mapping_config, header_keywords, pc,
          header_row_found, is_double_header, header_matches, returned,
          calls, start_row, matcher, remapper, builder, layouter, runner>>

detector == <<worksheet, quantity_mode, mapping_config, header_keywords>>

\* ------------------------------------------------------------------ text

UpperCase == <<"A","B","C","D","E","F","G","H","I","J","K","L","M",
               "N","O","P","Q","R","S","T","U","V","W","X","Y","Z">>

LowerCase == <<"a","b","c","d","e","f","g","h","i","j","k","l","m",
               "n","o","p","q","r","s","t","u","v","w","x","y","z">>

Digits == {"0","1","2","3","4","5","6","7","8","9"}

DigitChars == <<"0","1","2","3","4","5","6","7","8","9">>

Whitespace == {" ", "\t", "\n"}

\* str.lower() on one character
ToLower == [c \in {UpperCase[i] : i \in 1..Len(UpperCase)} |->
               LowerCase[CHOOSE i \in 1..Len(UpperCase) : UpperCase[i] = c]]

LowerCh(c) == IF c \in DOMAIN ToLower THEN ToLower[c] ELSE c

\* str.lower()
Lower(s) == [i \in 1..Len(s) |-> LowerCh(s[i])]

\* str.strip(): leading and trailing whitespace removed
Strip(s) ==
    LET keep == {i \in 1..Len(s) : s[i] \notin Whitespace}
    IN  IF keep = {} THEN <<>>
        ELSE LET first == CHOOSE i \in keep : \A j \in keep : i <= j
                 last  == CHOOSE i \in keep : \A j \in keep : j <= i
             IN  SubSeq(s, first, last)

\* Python's `sub in s` on strings
Contains(sub, s) ==
    \E k \in 0..(Len(s) - Len(sub)) : SubSeq(s, k + 1, k + Len(sub)) = sub

\* str.replace(ch, '') for a one-character ch
Remove(s, ch) == SelectSeq(s, LAMBDA c : c # ch)

\* str.isdigit(): non-empty and every character a digit
IsDigit(s) == Len(s) > 0 /\ \A i \in 1..Len(s) : s[i] \in Digits

\* str(n) for a non-negative integer n
RECURSIVE NatToStr(_)
NatToStr(n) ==
    IF n < 10 THEN <<DigitChars[n + 1]>>
    ELSE NatToStr(n \div 10) \o <<DigitChars[(n % 10) + 1]>>

\* str(n) for an integer n
IntToStr(n) == IF n < 0 THEN <<"-">> \o NatToStr(0 - n) ELSE NatToStr(n)

\* --------------------------------------------------------- cell values

\* cell.value: None, a str, or an int
NoneValue == [t |-> "None"]

StrValue(s) == [t |-> "str", s |-> s]

IntValue(n) == [t |-> "int", n |-> n]

\* str(cell.value)
PyStr(v) == IF v.t = "int" THEN IntToStr(v.n) ELSE v.s

\* a cell of the worksheet: its value and cell.font.bold
Cell(v, b) == [value |-> v, bold |-> b]

BlankCell == Cell(NoneValue, FALSE)

\* ------------------------------------------------------- string literals

QUANTITY == <<"q","u","a","n","t","i","t","y">>

QTY == <<"q","t","y">>

PACKING == <<"p","a","c","k","i","n","g">>

PKL == <<"p","k","l">>

PACKING_LIST == <<"p","a","c","k","i","n","g"," ","l","i","s","t">>

INVOICE == <<"i","n","v","o","i","c","e">>

DETAIL_PACKING_LIST == <<"d","e","t","a","i","l"," ","p","a","c","k","i","n","g"," ","l","i","s","t">>

CONTRACT == <<"c","o","n","t","r","a","c","t">>

PCS == <<"P","C","S">>

SF == <<"S","F">>

L_ITEM == <<"I","t","e","m">>

L_ITEM_PADDED == <<" ","I","t","e","m"," ">>

L_QUANTITY == <<"Q","u","a","n","t","i","t","y">>

L_QUANTITY_UPPER == <<"Q","U","A","N","T","I","T","Y">>

L_AMOUNT == <<"A","m","o","u","n","t">>

L_PO == <<"P",".","O">>

L_QTY == <<"Q","t","y">>

L_DESCRIPTION == <<"D","e","s","c","r","i","p","t","i","o","n">>

L_REMARKS == <<"R","e","m","a","r","k","s">>

L_UNIT_PRICE == <<"U","n","i","t"," ","P","r","i","c","e">>

L_SPACE == <<" ">>

L_GOODS == <<"D","e","s","c","r","i","p","t","i","o","n"," ","o","f"," ","g","o","o","d","s">>

L_TOTAL_AMOUNT == <<"T","o","t","a","l"," ","a","m","o","u","n","t">>

L_KG == <<"K","G">>

L_NUM_THOUSANDS == <<"1",",","2","3","4",".","5","0">>

L_NUM_DOLLARS == <<"$","5",".","0","0">>

L_ABC == <<"a","b","c">>

T_PACKING_LIST == <<"P","a","c","k","i","n","g"," ","L","i","s","t">>

T_INVOICE == <<"I","N","V","O","I","C","E">>

T_PKL_CONTRACT == <<"P","K","L"," ","C","o","n","t","r","a","c","t">>

T_SUMMARY == <<"S","u","m","m","a","r","y">>

T_PACKING == <<"P","a","c","k","i","n","g">>

\* ------------------------------------------------------------ worksheet

\* A worksheet is its title and a rectangular grid of cells, rows[r][c]
\* being worksheet.cell(row=r, column=c).
Worksheet(title, rows) == [title |-> title, rows |-> rows]

max_row(ws) == Len(ws.rows)

max_column(ws) == Len(ws.rows[1])

WsCell(ws, r, c) == ws.rows[r][c]

Min(a, b) == IF a <= b THEN a ELSE b

\* HeaderMatch(keyword=..., row=..., column=...)
HeaderMatch(keyword, row, column) ==
    [keyword |-> keyword, row |-> row, column |-> column]

\* "no row": None, which like 0 is false in `if not header_row_found`
NotFound == 0

\* ------------------------------------------------------ program constants

max_rows_to_check == 30

ColumnScanStop == 21

MinBoldCells == 3

MinKeywordCells == 3

MinSubHeaderBold == 2

ShortLabelLen == 5

ShortCellLen == 20

\* the columns every heuristic scans: range(1, min(21, max_column + 1))
ScanColumns(ws) == 1..(Min(ColumnScanStop, max_column(ws) + 1) - 1)

\* a scan of every row of the sheet
ScanAllRows(ws, max_rows) == 1..max_row(ws)

\* the rows a heuristic scans: range(1, min(max_rows + 1, max_row + 1))
ScanRows(ws, max_rows) == 1..(Min(max_rows + 1, max_row(ws) + 1) - 1)

\* ------------------------------------------------------- bold heuristic

\* cell.value is not None and str(cell.value).strip() is not empty
IsFilled(cell) == cell.value.t # "None" /\ Strip(PyStr(cell.value)) # <<>>

\* clean_value.replace('-', '').isdigit(), clean_value being the text with
\* ',', '$' and '.' removed
IsNumericText(cell_value) ==
    IsDigit(Remove(Remove(Remove(Remove(cell_value, ","), "$"), "."), "-"))

\* the counters of one row of the bold scan
RowCounts(ws, row_num) ==
    LET filled  == {c \in ScanColumns(ws) : IsFilled(WsCell(ws, row_num, c))}
        numeric == {c \in filled :
                      IsNumericText(Strip(PyStr(WsCell(ws, row_num, c).value)))}
    IN  [row           |-> row_num,
         bold_count    |-> Cardinality({c \in filled : WsCell(ws, row_num, c).bold}),
         filled_count  |-> Cardinality(filled),
         text_count    |-> Cardinality(filled \ numeric),
         numeric_count |-> Cardinality(numeric)]

\* bold_count >= 3 and text_count > numeric_count
IsCandidate(counts) ==
    counts.bold_count >= MinBoldCells /\ counts.text_count > counts.numeric_count

\* the candidates list, appended in row order
Candidates(ws, max_rows) ==
    LET n == Min(max_rows + 1, max_row(ws) + 1) - 1
    IN  SelectSeq([r \in 1..n |-> RowCounts(ws, r)], IsCandidate)

\* the sort without reverse=True: ascending bold_count
RECURSIVE SortByBoldAsc(_)
SortByBoldAsc(cands) ==
    IF cands = <<>> THEN <<>>
    ELSE LET x      == cands[Len(cands)]
             sorted == SortByBoldAsc(SubSeq(cands, 1, Len(cands) - 1))
             k      == Cardinality({i \in 1..Len(sorted) :
                                      sorted[i].bold_count <= x.bold_count})
         IN  SubSeq(sorted, 1, k) \o <<x>> \o SubSeq(sorted, k + 1, Len(sorted))

\* a descending sort that puts a later row before the earlier rows of the
\* same bold_count
RECURSIVE SortByBoldDescUnstable(_)
SortByBoldDescUnstable(cands) ==
    IF cands = <<>> THEN <<>>
    ELSE LET x      == cands[Len(cands)]
             sorted == SortByBoldDescUnstable(SubSeq(cands, 1, Len(cands) - 1))
             k      == Cardinality({i \in 1..Len(sorted) :
                                      sorted[i].bold_count > x.bold_count})
         IN  SubSeq(sorted, 1, k) \o <<x>> \o SubSeq(sorted, k + 1, Len(sorted))

\* list.sort(key=bold_count, reverse=True): stable, so equal keys keep
\* their order
RECURSIVE SortByBoldDesc(_)
SortByBoldDesc(cands) ==
    IF cands = <<>> THEN <<>>
    ELSE LET x      == cands[Len(cands)]
             sorted == SortByBoldDesc(SubSeq(cands, 1, Len(cands) - 1))
             k      == Cardinality({i \in 1..Len(sorted) :
                                      sorted[i].bold_count >= x.bold_count})
         IN  SubSeq(sorted, 1, k) \o <<x>> \o SubSeq(sorted, k + 1, Len(sorted))

_find_header_row_by_bold(ws, max_rows) ==
    LET candidates == Candidates(ws, max_rows)
    IN  IF candidates = <<>> THEN NotFound
        ELSE SortByBoldDesc(candidates)[1].row

\* ------------------------------------------------------ the rows explored

\* a bold text cell, a plain text cell
B(s) == Cell(StrValue(s), TRUE)

N(s) == Cell(StrValue(s), FALSE)

RowBlank == <<BlankCell, BlankCell, BlankCell, BlankCell>>

RowQuantity3 == <<B(L_ITEM_PADDED), B(L_AMOUNT), B(L_QUANTITY), BlankCell>>

RowQty4 == <<B(L_PO), B(L_ITEM), B(L_AMOUNT), B(L_QTY)>>

RowPlain3 == <<B(L_ITEM), B(L_DESCRIPTION), B(L_AMOUNT), N(L_REMARKS)>>

RowKeywords == <<N(L_ITEM), N(L_QUANTITY_UPPER), N(L_REMARKS), B(L_SPACE)>>

RowSub2 == <<BlankCell, BlankCell, B(PCS), B(SF)>>

RowSub1 == <<BlankCell, B(L_SPACE), B(PCS), N(SF)>>

RowSubQuantity == <<B(PCS), B(SF), B(L_KG), B(L_QUANTITY)>>

RowLong == <<B(L_GOODS), B(L_TOTAL_AMOUNT), N(L_KG), BlankCell>>

RowTie == <<B(L_GOODS), B(L_KG), BlankCell, BlankCell>>

RowData == <<Cell(IntValue(12), TRUE), B(L_NUM_THOUSANDS), B(L_NUM_DOLLARS), B(L_ABC)>>

RowPatterns == {RowBlank, RowQuantity3, RowQty4, RowPlain3, RowKeywords,
                RowSub2, RowSub1, RowLong, RowTie, RowData, RowSubQuantity}

\* the texts of the cells explored, as the heuristics read them
SheetTexts ==
    UNION {{Strip(PyStr(row[c].value)) :
               c \in {k \in 1..Len(row) : row[k].value.t # "None"}} :
           row \in RowPatterns}

\* ---------------------------------------------------- keyword heuristic

\* \w of Python's re: letters, digits and the underscore
WordChars ==
    {UpperCase[i] : i \in 1..Len(UpperCase)} \cup
    {LowerCase[i] : i \in 1..Len(LowerCase)} \cup Digits \cup {"_"}

\* re.sub(r'[^\w\s]', ' ', s)
PunctToSpace(s) ==
    [i \in 1..Len(s) |->
        IF s[i] \in WordChars \/ s[i] \in Whitespace THEN s[i] ELSE " "]

\* ' '.join(s.split()): runs of whitespace become one space, none at the ends
RECURSIVE JoinWords(_)
JoinWords(s) ==
    LET t == Strip(s)
    IN  IF Len(t) <= 1 THEN t
        ELSE IF t[2] \in Whitespace
             THEN <<t[1], " ">> \o JoinWords(Tail(Tail(t)))
             ELSE <<t[1]>> \o JoinWords(Tail(t))

CleanText(s) == JoinWords(PunctToSpace(s))

\* similarity = len(keyword_lower) / len(cell_lower); similarity >= 0.6.
\* The quotient is correctly rounded, so for these lengths it compares with
\* the double 0.6 as 10 * len(keyword) compares with 6 * len(cell).
SimilarEnough(keyword_lower, cell_lower) ==
    10 * Len(keyword_lower) >= 6 * Len(cell_lower)

\* the match without the limit on the length of the cell
MatchesKeywordAnyLength(cell_value, keyword) ==
    LET cell_lower    == Strip(Lower(cell_value))
        keyword_lower == Lower(keyword)
    IN  IF cell_lower = keyword_lower THEN TRUE
        ELSE IF CleanText(cell_lower) = CleanText(keyword_lower) THEN TRUE
        ELSE IF Contains(keyword_lower, cell_lower)
             THEN SimilarEnough(keyword_lower, cell_lower)
             ELSE FALSE

_matches_keyword(cell_value, keyword) ==
    LET cell_lower    == Strip(Lower(cell_value))
        keyword_lower == Lower(keyword)
    IN  IF cell_lower = keyword_lower THEN TRUE
        ELSE IF CleanText(cell_lower) = CleanText(keyword_lower) THEN TRUE
        ELSE IF Len(cell_lower) <= ShortCellLen /\ Contains(keyword_lower, cell_lower)
             THEN SimilarEnough(keyword_lower, cell_lower)
             ELSE FALSE

\* the built-in keywords of _load_header_keywords
DefaultKeywords ==
    {
      <<"P",".","O">>,
      <<"I","T","E","M">>,
      <<"D","e","s","c","r","i","p","t","i","o","n">>,
      <<"Q","u","a","n","t","i","t","y">>,
      <<"A","m","o","u","n","t">>,
      <<"M","a","r","k">>,
      <<"U","n","i","t"," ","p","r","i","c","e">>,
      <<"P","r","i","c","e">>,
      <<"T","o","t","a","l">>,
      <<"W","e","i","g","h","t">>,
      <<"C","B","M">>,
      <<"P","a","l","l","e","t">>,
      <<"R","e","m","a","r","k","s">>,
      <<"H","S"," ","C","O","D","E">>,
      <<"N","a","m","e">>,
      <<"C","o","m","m","o","d","i","t","y">>,
      <<"G","o","o","d","s">>,
      <<"P","r","o","d","u","c","t">>,
      <<"P","C","S">>,
      <<"S","F">>,
      <<"N","o",".">>,
      <<"N",".","W">>,
      <<"G",".","W">>,
      <<"N","e","t">>,
      <<"G","r","o","s","s">>,
      <<"F","C","A">>
    }

\* the loop over the keywords for one cell: some keyword matches
MatchesSomeKeyword(cell_value, keywords) ==
    \E keyword \in keywords : _matches_keyword(cell_value, keyword)

\* that loop's answers for the built-in keywords on the texts explored,
\* tabulated once
DefaultKeywordHit ==
    [cell_value \in SheetTexts |->
        \E keyword \in DefaultKeywords :
            _matches_keyword(cell_value, keyword)] @@ <<>>

IsKeywordCell(cell_value, keywords) ==
    IF keywords = DefaultKeywords /\ cell_value \in DOMAIN DefaultKeywordHit
    THEN DefaultKeywordHit[cell_value]
    ELSE MatchesSomeKeyword(cell_value, keywords)

\* keyword_count of one row: the cells with a value that match some keyword
KeywordCount(ws, row_num, keywords) ==
    Cardinality({c \in ScanColumns(ws) :
        /\ WsCell(ws, row_num, c).value.t # "None"
        /\ IsKeywordCell(Strip(PyStr(WsCell(ws, row_num, c).value)), keywords)})

\* the keyword scan without its early return: the last row with at least 3
\* keyword cells
LastKeywordRow(ws, max_rows, keywords) ==
    LET hits == {r \in ScanRows(ws, max_rows) :
                    KeywordCount(ws, r, keywords) >= MinKeywordCells}
    IN  IF hits = {} THEN NotFound
        ELSE CHOOSE r \in hits : \A q \in hits : q <= r

\* the first scanned row with at least 3 keyword cells
\* the keyword heuristic finding no row
NoKeywordRow(ws, max_rows, keywords) == NotFound

_find_header_row_by_keywords(ws, max_rows, keywords) ==
    LET hits == {r \in ScanRows(ws, max_rows) :
                    KeywordCount(ws, r, keywords) >= MinKeywordCells}
    IN  IF hits = {} THEN NotFound
        ELSE CHOOSE r \in hits : \A q \in hits : r <= q

\* ------------------------------------------------ double-header decision

\* CHECK 1: some scanned cell of the header row holds 'quantity' or 'qty'
HasQuantity(ws, header_row) ==
    \E col \in ScanColumns(ws) :
        LET cell == WsCell(ws, header_row, col)
        IN  /\ cell.value.t # "None"
            /\ LET cell_value == Lower(Strip(PyStr(cell.value)))
               IN  \/ Contains(QUANTITY, cell_value)
                   \/ cell_value = QTY
                   \/ Contains(QTY, cell_value)

\* the counters of the row below the header row
NextRowCounts(ws, next_row) ==
    LET filled  == {c \in ScanColumns(ws) : IsFilled(WsCell(ws, next_row, c))}
        text    == {c \in filled :
                      ~IsNumericText(Strip(PyStr(WsCell(ws, next_row, c).value)))}
        short   == {c \in text :
                      Len(Strip(PyStr(WsCell(ws, next_row, c).value))) <= ShortLabelLen}
    IN  [text_cells       |-> Cardinality(text),
         numeric_cells    |-> Cardinality(filled \ text),
         bold_cells       |-> Cardinality({c \in filled : WsCell(ws, next_row, c).bold}),
         short_text_cells |-> Cardinality(short),
         long_text_cells  |-> Cardinality(text \ short)]

\* the decision without its check of the next row's bold cells
IsDoubleHeaderAnyFont(ws, header_row) ==
    IF ~HasQuantity(ws, header_row) THEN FALSE
    ELSE IF header_row >= max_row(ws) THEN FALSE
    ELSE LET n == NextRowCounts(ws, header_row + 1)
         IN  IF n.text_cells = 0 \/ n.numeric_cells >= n.text_cells THEN FALSE
             ELSE IF n.long_text_cells > n.short_text_cells THEN FALSE
             ELSE TRUE

_is_double_header_quantity_based(ws, header_row) ==
    IF ~HasQuantity(ws, header_row) THEN FALSE
    ELSE IF header_row >= max_row(ws) THEN FALSE
    ELSE LET n == NextRowCounts(ws, header_row + 1)
         IN  IF n.text_cells = 0 \/ n.numeric_cells >= n.text_cells THEN FALSE
             ELSE IF n.bold_cells < MinSubHeaderBold THEN FALSE
             ELSE IF n.long_text_cells > n.short_text_cells THEN FALSE
             ELSE TRUE

\* ------------------------------------------------------------ extraction

\* the extraction reading only the columns the heuristics scan
RowMatchesScanned(ws, row) ==
    LET cells == [c \in 1..Min(ColumnScanStop - 1, max_column(ws)) |->
                    [cell |-> WsCell(ws, row, c), column |-> c]]
        kept  == SelectSeq(cells, LAMBDA x : IsFilled(x.cell))
    IN  [i \in 1..Len(kept) |->
            HeaderMatch(Strip(PyStr(kept[i].cell.value)), row, kept[i].column)]

\* one HeaderMatch per non-empty cell of worksheet[row], in column order
RowMatches(ws, row) ==
    LET cells == [c \in 1..max_column(ws) |->
                    [cell |-> WsCell(ws, row, c), column |-> c]]
        kept  == SelectSeq(cells, LAMBDA x : IsFilled(x.cell))
    IN  [i \in 1..Len(kept) |->
            HeaderMatch(Strip(PyStr(kept[i].cell.value)), row, kept[i].column)]

_extract_all_headers_from_row(ws, header_row) == RowMatches(ws, header_row)

_extract_double_header(ws, header_row) ==
    RowMatches(ws, header_row) \o RowMatches(ws, header_row + 1)

\* ------------------------------------------------- quantity enhancement

\* the packing test with 'invoice' among its names
IsPackingOrInvoiceSheet(ws) ==
    \E keyword \in {PACKING, PKL, PACKING_LIST, INVOICE} :
        Contains(keyword, Lower(ws.title))

\* the sheet is a packing list: 'packing', 'pkl' or 'packing list' in its
\* lower-cased title
IsPackingSheet(ws) ==
    \E keyword \in {PACKING, PKL, PACKING_LIST} : Contains(keyword, Lower(ws.title))

\* the search for the Quantity column taking 'qty' for it as well
QuantityOrQtyIndex(matches) ==
    LET hits == {i \in 1..Len(matches) :
                    \/ Contains(QUANTITY, Lower(matches[i].keyword))
                    \/ Contains(QTY, Lower(matches[i].keyword))}
    IN  IF hits = {} THEN 0 ELSE CHOOSE i \in hits : \A j \in hits : i <= j

\* the first match whose lower-cased keyword holds 'quantity'; 0 when none
QuantityIndex(matches) ==
    LET hits == {i \in 1..Len(matches) :
                    Contains(QUANTITY, Lower(matches[i].keyword))}
    IN  IF hits = {} THEN 0 ELSE CHOOSE i \in hits : \A j \in hits : i <= j

\* the enhancement appending to the list it was given, not to a copy
EnhanceInPlace(matches, ws) ==
    IF ~IsPackingSheet(ws)
    THEN [returned |-> matches, argument |-> matches]
    ELSE IF QuantityIndex(matches) = 0
    THEN [returned |-> matches, argument |-> matches]
    ELSE LET quantity_match == matches[QuantityIndex(matches)]
             pcs_header  == HeaderMatch(PCS, quantity_match.row + 1,
                                        quantity_match.column)
             sqft_header == HeaderMatch(SF, quantity_match.row + 1,
                                        quantity_match.column + 1)
             enhanced    == Append(Append(matches, pcs_header), sqft_header)
         IN  [returned |-> enhanced, argument |-> enhanced]

\* The call's effect: `returned` is the list it returns, `argument` the
\* contents of the list object it was given, after the call.
_apply_quantity_mode_enhancement(matches, ws) ==
    IF ~IsPackingSheet(ws)
    THEN [returned |-> matches, argument |-> matches]
    ELSE IF QuantityIndex(matches) = 0
    THEN [returned |-> matches, argument |-> matches]
    ELSE LET quantity_match == matches[QuantityIndex(matches)]
             pcs_header  == HeaderMatch(PCS, quantity_match.row + 1,
                                        quantity_match.column)
             sqft_header == HeaderMatch(SF, quantity_match.row + 1,
                                        quantity_match.column + 1)
         IN  [returned |-> Append(Append(matches, pcs_header), sqft_header),
              argument |-> matches]

\* ------------------------------------------------------------- start row

\* min(match.row for match in header_positions): a running minimum
RECURSIVE MinRowFrom(_, _)
MinRowFrom(smallest, rest) ==
    IF rest = <<>> THEN smallest
    ELSE MinRowFrom(IF rest[1].row < smallest THEN rest[1].row ELSE smallest,
                    Tail(rest))

\* the row of the first match in place of the minimum
FirstMatchRow(header_positions) ==
    IF header_positions = <<>> THEN 1 ELSE header_positions[1].row

calculate_start_row(header_positions) ==
    IF header_positions = <<>> THEN 1
    ELSE MinRowFrom(header_positions[1].row, Tail(header_positions))

\* -------------------------------------------------------- the detector

\* mapping_config: None, or the dictionary, of which only the keys of
\* header_text_mappings.mappings (the header labels) are read
NoConfig == [t |-> "None", headers |-> <<>>]

MappingConfig(headers) == [t |-> "dict", headers |-> headers]

\* `if self.mapping_config:` -- None and the empty dictionary are false
ConfigGiven(config) == config.t = "dict"

\* The list comprehension of the method reads `words` and `generic_words`,
\* names bound nowhere: the call raises NameError before it returns.
_extract_keywords_from_header(header) ==
    [raised |-> TRUE, keywords |-> {}]

\* the try block: the loop over the labels stops at the first exception,
\* which the except clause swallows
RECURSIVE KeywordsFromLabels(_, _)
KeywordsFromLabels(headers, keywords) ==
    IF headers = <<>> THEN keywords
    ELSE LET got == _extract_keywords_from_header(headers[1])
         IN  IF got.raised THEN keywords
             ELSE KeywordsFromLabels(Tail(headers), keywords \cup got.keywords)

_load_header_keywords(config) ==
    LET loaded == IF ConfigGiven(config)
                  THEN KeywordsFromLabels(config.headers, {})
                  ELSE {}
    IN  IF loaded = {} THEN DefaultKeywords ELSE loaded

valid_sheets == {INVOICE, PACKING_LIST, DETAIL_PACKING_LIST, CONTRACT}

\* the sheet-name gate with the enhancement's 'packing' among its names
IsValidSheetOrPacking(ws) ==
    LET sheet_name == Strip(Lower(ws.title))
    IN  \E valid_name \in valid_sheets \cup {PACKING} :
            Contains(valid_name, sheet_name)

\* is_valid_sheet of find_headers
IsValidSheet(ws) ==
    LET sheet_name == Strip(Lower(ws.title))
    IN  \E valid_name \in valid_sheets : Contains(valid_name, sheet_name)

\* What one call of find_headers does: the list it returns, the row it
\* located, its double-header decision, the list it extracted (as that list
\* object is after the call) and the helper methods it called, in order.
Outcome(result, row, double, extracted, called) ==
    [returned         |-> result,
     header_row_found |-> row,
     is_double_header |-> double,
     header_matches   |-> extracted,
     calls            |-> called]

\* find_headers with the keyword heuristic tried first
FindHeadersKeywordsFirst(ws, mode, keywords) ==
    IF ~IsValidSheet(ws)
    THEN Outcome(<<>>, NotFound, FALSE, <<>>, <<>>)
    ELSE
    LET by_keywords == _find_header_row_by_keywords(ws, max_rows_to_check, keywords)
        row_found ==
            IF by_keywords = NotFound
            THEN _find_header_row_by_bold(ws, max_rows_to_check)
            ELSE by_keywords
        located == IF by_keywords = NotFound THEN <<"keywords", "bold">>
                   ELSE <<"keywords">>
    IN  IF row_found = NotFound
        THEN Outcome(<<>>, NotFound, FALSE, <<>>, located)
        ELSE
        LET is_double == _is_double_header_quantity_based(ws, row_found)
            matches ==
                IF is_double
                THEN _extract_double_header(ws, row_found)
                ELSE _extract_all_headers_from_row(ws, row_found)
            extracted ==
                located \o <<"double_header">> \o
                (IF is_double THEN <<"extract_double">> ELSE <<"extract_row">>)
        IN  IF mode
            THEN LET enhanced == _apply_quantity_mode_enhancement(matches, ws)
                 IN  Outcome(enhanced.returned, row_found, is_double,
                             enhanced.argument, extracted \o <<"enhancement">>)
            ELSE Outcome(matches, row_found, is_double, matches, extracted)

find_headers(ws, mode, keywords) ==
    IF ~IsValidSheet(ws)
    THEN Outcome(<<>>, NotFound, FALSE, <<>>, <<>>)
    ELSE
    LET by_bold == _find_header_row_by_bold(ws, max_rows_to_check)
        row_found ==
            IF by_bold = NotFound
            THEN _find_header_row_by_keywords(ws, max_rows_to_check, keywords)
            ELSE by_bold
        located == IF by_bold = NotFound THEN <<"bold", "keywords">> ELSE <<"bold">>
    IN  IF row_found = NotFound
        THEN Outcome(<<>>, NotFound, FALSE, <<>>, located)
        ELSE
        LET is_double == _is_double_header_quantity_based(ws, row_found)
            matches ==
                IF is_double
                THEN _extract_double_header(ws, row_found)
                ELSE _extract_all_headers_from_row(ws, row_found)
            extracted ==
                located \o <<"double_header">> \o
                (IF is_double THEN <<"extract_double">> ELSE <<"extract_row">>)
        IN  IF mode
            THEN LET enhanced == _apply_quantity_mode_enhancement(matches, ws)
                 IN  Outcome(enhanced.returned, row_found, is_double,
                             enhanced.argument, extracted \o <<"enhancement">>)
            ELSE Outcome(matches, row_found, is_double, matches, extracted)

\* -------------------------------------------------------- column mapping

\* a column mapping: None, or the dictionary {template column: output
\* column or None}, its keys 1..n
NoDict == [t |-> "None", entries |-> <<>>]

Dict(entries) == [t |-> "dict", entries |-> entries]

\* col_id in filtered_columns
InList(col_id, list) == \E i \in 1..Len(list) : list[i] = col_id

\* the loop of generate_column_mapping_from_filtered_columns, from the
\* entries made so far and the output_index reached
RECURSIVE MappingLoop(_, _, _, _)
MappingLoop(template_columns, filtered_columns, mapping, output_index) ==
    IF Len(mapping) = Len(template_columns) THEN mapping
    ELSE LET col_id == template_columns[Len(mapping) + 1]
         IN  IF InList(col_id, filtered_columns)
             THEN MappingLoop(template_columns, filtered_columns,
                              Append(mapping, IntValue(output_index)),
                              output_index + 1)
             ELSE MappingLoop(template_columns, filtered_columns,
                              Append(mapping, NoneValue), output_index)

\* every kept column mapped to its own template index
MappingWithoutShift(template_columns, filtered_columns) ==
    Dict([i \in 1..Len(template_columns) |->
            IF InList(template_columns[i], filtered_columns)
            THEN IntValue(i) ELSE NoneValue])

\* every kept column mapped to the first place of its identifier in the
\* filtered list
MappingByPlace(template_columns, filtered_columns) ==
    Dict([i \in 1..Len(template_columns) |->
            IF InList(template_columns[i], filtered_columns)
            THEN IntValue(CHOOSE k \in 1..Len(filtered_columns) :
                     /\ filtered_columns[k] = template_columns[i]
                     /\ \A j \in 1..(k - 1) :
                           filtered_columns[j] # template_columns[i])
            ELSE NoneValue])

generate_column_mapping_from_filtered_columns(template_columns, filtered_columns) ==
    Dict(MappingLoop(template_columns, filtered_columns, <<>>, 1))

\* the check looking for nothing
EntriesUnchecked(entries, last_output) == TRUE

\* The check of a mapping at construction: its entries are read in the
\* order of the template columns, and a kept column whose output column is
\* not beyond that of the kept column before it is a collision or a
\* reordering.
RECURSIVE EntriesInOrder(_, _)
EntriesInOrder(entries, last_output) ==
    IF entries = <<>> THEN TRUE
    ELSE IF entries[1].t = "None" THEN EntriesInOrder(Tail(entries), last_output)
    ELSE IF entries[1].n <= last_output THEN FALSE
    ELSE EntriesInOrder(Tail(entries), entries[1].n)

\* set_column_mapping(mapping): installs the mapping, or raises
\* ConfigurationError and installs nothing
set_column_mapping(mapping, installed) ==
    IF EntriesInOrder(mapping.entries, 0)
    THEN [column_mapping |-> mapping, raised |-> "None"]
    ELSE [column_mapping |-> installed, raised |-> "ConfigurationError"]

\* no mapping derived, requested or installed
NoMapping ==
    /\ template_ids = <<>>
    /\ output_ids = <<>>
    /\ requested_mapping = NoDict
    /\ column_mapping = NoDict
    /\ mapping_error = "None"

\* -------------------------------------------------------- template state

\* a sheet of the generator: the cells that exist, by <<row, column>>, each
\* with a value and a style; the merged ranges in the order of their
\* creation; the heights of the rows that have one
NoCells == [pos \in {} |-> 0]

EmptySheet == [cells |-> NoCells, merged |-> <<>>, row_heights |-> NoCells]

StyledCell(value, style) == [value |-> value, style |-> style]

MergedRange(row_start, col_start, row_end, col_end) ==
    [row_start |-> row_start, col_start |-> col_start,
     row_end |-> row_end, col_end |-> col_end]

\* TemplateStateBuilder(worksheet, num_header_cols, header_end_row,
\* footer_start_row): the arguments other than the worksheet
Layout(num_header_cols, header_end_row, footer_start_row) ==
    [num_header_cols |-> num_header_cols, header_end_row |-> header_end_row,
     footer_start_row |-> footer_start_row]

\* the last row of a sheet that has a cell
LastRow(ws) ==
    CHOOSE r \in {pos[1] : pos \in DOMAIN ws.cells} :
        \A pos \in DOMAIN ws.cells : pos[1] <= r

\* no block captured or replayed
NoCount == [header |-> 0, footer |-> 0]

NoState == [t |-> "None", cells |-> <<>>, merged |-> <<>>,
            row_heights |-> NoCells, first_row |-> 0, last_row |-> 0]

\* the positions of the rows first_row..last_row, columns 1..num_cols, row
\* by row
RangePositions(first_row, last_row, num_cols) ==
    [k \in 1..((last_row - first_row + 1) * num_cols) |->
        <<first_row + ((k - 1) \div num_cols), 1 + ((k - 1) % num_cols)>>]

\* The snapshot of the rows first_row..last_row of a sheet: the cells that
\* exist, in order, each with its place, value and style; the merged
\* ranges that meet the rows; the heights of the rows.
capture(ws, first_row, last_row, num_cols) ==
    LET Exists(pos) == pos \in DOMAIN ws.cells
        found == SelectSeq(RangePositions(first_row, last_row, num_cols), Exists)
        Meets(mr) == mr.row_start <= last_row /\ mr.row_end >= first_row
    IN  [t |-> "state",
         cells |-> [k \in 1..Len(found) |->
                      [row |-> found[k][1], col |-> found[k][2],
                       value |-> ws.cells[found[k]].value,
                       style |-> ws.cells[found[k]].style]],
         merged |-> SelectSeq(ws.merged, Meets),
         row_heights |-> [r \in {h \in DOMAIN ws.row_heights :
                                    first_row <= h /\ h <= last_row} |->
                             ws.row_heights[r]],
         first_row |-> first_row,
         last_row |-> last_row]

\* the captured cells written until one of a removed column is met
RECURSIVE ReplayCellsUntilRemoved(_, _, _, _)
ReplayCellsUntilRemoved(captured, cells, row_offset, mapping) ==
    IF captured = <<>> THEN cells
    ELSE LET out == mapping.entries[captured[1].col]
         IN  IF out.t = "None" THEN cells
             ELSE ReplayCellsUntilRemoved(Tail(captured),
                      (<<captured[1].row + row_offset, out.n>> :>
                          StyledCell(captured[1].value, captured[1].style)) @@ cells,
                      row_offset, mapping)

\* the captured cells written without the row offset
RECURSIVE ReplayCellsUnshifted(_, _, _, _)
ReplayCellsUnshifted(captured, cells, row_offset, mapping) ==
    IF captured = <<>> THEN cells
    ELSE LET out == mapping.entries[captured[1].col]
         IN  ReplayCellsUnshifted(Tail(captured),
                 IF out.t = "None" THEN cells
                 ELSE (<<captured[1].row, out.n>> :>
                          StyledCell(captured[1].value, captured[1].style)) @@ cells,
                 row_offset, mapping)

\* Each captured cell in turn: skipped when its column is removed, written
\* with its value and style at the offset row and the output column
\* otherwise; a later write to the same place wins.
RECURSIVE ReplayCells(_, _, _, _)
ReplayCells(captured, cells, row_offset, mapping) ==
    IF captured = <<>> THEN cells
    ELSE LET out == mapping.entries[captured[1].col]
         IN  ReplayCells(Tail(captured),
                 IF out.t = "None" THEN cells
                 ELSE (<<captured[1].row + row_offset, out.n>> :>
                          StyledCell(captured[1].value, captured[1].style)) @@ cells,
                 row_offset, mapping)

\* the runs a..b of template columns of a merged range that are all kept
\* and mapped within the output columns
KeptRuns(mr, mapping, num_cols) ==
    {run \in (mr.col_start..mr.col_end) \X (mr.col_start..mr.col_end) :
        /\ run[1] <= run[2]
        /\ \A c \in run[1]..run[2] :
              /\ mapping.entries[c].t = "int"
              /\ mapping.entries[c].n <= num_cols}

\* the longest of the runs, the leftmost of the longest
LargestRun(runs) ==
    CHOOSE run \in runs :
        \A other \in runs :
            \/ run[2] - run[1] > other[2] - other[1]
            \/ run[2] - run[1] = other[2] - other[1] /\ run[1] <= other[1]

\* a captured merged range emitted over its own columns
ReplayedMergeAsIs(mr, row_offset, mapping, num_cols) ==
    <<MergedRange(mr.row_start + row_offset, mr.col_start,
                  mr.row_end + row_offset, mr.col_end)>>

\* The merged range to create for a captured one, if any: over the images
\* of its boundary columns when both are kept and the range ends within
\* the output columns; otherwise over the images of its largest run of
\* kept columns; none when no column remains or one cell remains.
ReplayedMerge(mr, row_offset, mapping, num_cols) ==
    LET first == mapping.entries[mr.col_start]
        last == mapping.entries[mr.col_end]
        runs == KeptRuns(mr, mapping, num_cols)
        Region(a, b) == MergedRange(mr.row_start + row_offset, a,
                                    mr.row_end + row_offset, b)
    IN  IF first.t = "int" /\ last.t = "int" /\ last.n <= num_cols
        THEN <<Region(first.n, last.n)>>
        ELSE IF runs = {} THEN <<>>
        ELSE LET run == LargestRun(runs)
             IN  IF run[1] = run[2] /\ mr.row_start = mr.row_end THEN <<>>
                 ELSE <<Region(mapping.entries[run[1]].n,
                               mapping.entries[run[2]].n)>>

\* the range merged whether or not it is merged already
MergeAgain(merged, new) == merged \o new

\* merge_cells: the range is merged unless it is merged already
MergeCells(merged, new) ==
    IF new = <<>> \/ InList(new[1], merged) THEN merged ELSE merged \o new

RECURSIVE ReplayMerges(_, _, _, _, _)
ReplayMerges(captured, merged, row_offset, mapping, num_cols) ==
    IF captured = <<>> THEN merged
    ELSE ReplayMerges(Tail(captured),
             MergeCells(merged,
                 ReplayedMerge(captured[1], row_offset, mapping, num_cols)),
             row_offset, mapping, num_cols)

\* the recorded heights set on the offset rows
ReplayHeights(recorded, row_heights, row_offset) ==
    [r \in {h + row_offset : h \in DOMAIN recorded} \cup DOMAIN row_heights |->
        IF r - row_offset \in DOMAIN recorded THEN recorded[r - row_offset]
        ELSE row_heights[r]]

\* the snapshot written into the target sheet at the row offset, through
\* the column mapping, for num_cols output columns
replay(state, target, row_offset, mapping, num_cols) ==
    [cells |-> ReplayCells(state.cells, target.cells, row_offset, mapping),
     merged |-> ReplayMerges(state.merged, target.merged, row_offset,
                             mapping, num_cols),
     row_heights |-> ReplayHeights(state.row_heights, target.row_heights,
                                   row_offset)]

\* no sheet pass under way
NoPass ==
    /\ template_ws = EmptySheet
    /\ layout = Layout(0, 0, 0)
    /\ output_ws = EmptySheet
    /\ header_state = NoState
    /\ footer_state = NoState
    /\ actual_num_cols = 0
    /\ data_rows = 0
    /\ captures = NoCount
    /\ replays = NoCount

\* the rows the data table writes below the header, one cell for each
\* output column
DataCells(first_row, row_count, num_cols) ==
    [pos \in (first_row..(first_row + row_count - 1)) \X (1..num_cols) |->
        StyledCell("data", "normal")]

\* LayoutBuilder(..., skip_template_header_restoration=...,
\* skip_template_footer_restoration=...) for a table of so many data rows
TableArgs(skip_header, skip_footer, row_count) ==
    [skip_template_header_restoration |-> skip_header,
     skip_template_footer_restoration |-> skip_footer,
     rows |-> row_count]

\* a block of a table written to the output sheet
Written(block, table) == [block |-> block, table |-> table]

\* LayoutBuilder.build() for one table whose header is at header_row: the
\* template header replayed there unless skipped, the data rows written
\* below it, the template footer replayed below the data rows unless
\* skipped. Gives the output sheet, the row after the table and the
\* blocks written, in order.
build(template, args, target, header_row, table, mapping, num_cols) ==
    LET header == capture(template, 1, args.header_end_row, args.num_header_cols)
        footer == capture(template, args.footer_start_row, LastRow(template),
                          args.num_header_cols)
        skip_header == tables[table].skip_template_header_restoration
        skip_footer == tables[table].skip_template_footer_restoration
        with_header == IF skip_header THEN target
                       ELSE replay(header, target, header_row - 1, mapping, num_cols)
        first_data == IF skip_header THEN header_row
                      ELSE header_row + args.header_end_row
        with_data == [with_header EXCEPT !.cells =
                         DataCells(first_data, tables[table].rows, num_cols) @@ @]
        footer_row == first_data + tables[table].rows
        with_footer == IF skip_footer THEN with_data
                       ELSE replay(footer, with_data,
                                   footer_row - args.footer_start_row,
                                   mapping, num_cols)
    IN  [ws |-> with_footer,
         next_row_after_footer |->
             IF skip_footer THEN footer_row
             ELSE footer_row + (LastRow(template) - args.footer_start_row) + 1,
         written |-> (IF skip_header THEN <<>> ELSE <<Written("header", table)>>)
                     \o <<Written("data", table)>>
                     \o (IF skip_footer THEN <<>> ELSE <<Written("footer", table)>>)]

\* no table built
NoTables ==
    /\ tables = <<>>
    /\ table_index = 0
    /\ current_row = 0
    /\ build_log = <<>>

\* a name of main that is not bound yet
Unbound == [bound |-> FALSE, items |-> <<>>]

\* a list of sheet names
Bound(items) == [bound |-> TRUE, items |-> items]

\* no run of main under way
NoRun ==
    /\ sheets_to_process = <<>>
    /\ sheet_index = 0
    /\ sheets_processed = Unbound
    /\ sheets_failed = Unbound
    /\ processing_successful = TRUE
    /\ saved = FALSE
    /\ status = "None"
    /\ error_msg = "None"

\* ------------------------------------------------------------ the inputs

\* the rows a sheet's block of content is made of
MaxRow == 2

\* a block of content: MaxRow rows, each one of the patterns
Blocks == [1..MaxRow -> RowPatterns]

\* the block placed row_shift rows down and col_shift columns to the right
\* of A1, the cells before it blank
Shifted(block, row_shift, col_shift) ==
    LET width == col_shift + Len(block[1])
    IN  [r \in 1..(row_shift + Len(block)) |->
            [c \in 1..width |->
                IF r > row_shift /\ c > col_shift
                THEN block[r - row_shift][c - col_shift]
                ELSE BlankCell]]

Titles == {T_PACKING_LIST, T_INVOICE, T_PKL_CONTRACT, T_SUMMARY, T_PACKING}

\* where a block is placed: at A1, with its first row the last row scanned,
\* with its last column the first column not scanned
AtOrigin == [row_shift |-> 0, col_shift |-> 0]

AcrossLastRow == [row_shift |-> max_rows_to_check - 1, col_shift |-> 0]

AcrossLastColumn == [row_shift |-> 0, col_shift |-> ColumnScanStop - Len(RowBlank)]

Setup(title, mode, config, place) ==
    [title |-> title, quantity_mode |-> mode, mapping_config |-> config,
     place |-> place]

\* the sheets and detectors explored: every title with both modes at the
\* origin, a packing list across each edge of the scan window, and a
\* detector built with a label mapping
Setups ==
    {Setup(title, mode, NoConfig, AtOrigin) : title \in Titles, mode \in BOOLEAN}
    \cup {Setup(T_PACKING_LIST, TRUE, NoConfig, place) :
              place \in {AcrossLastRow, AcrossLastColumn}}
    \cup {Setup(T_INVOICE, FALSE, MappingConfig(<<L_UNIT_PRICE>>), AtOrigin)}

\* ------------------------------------------------------------- the state

NoCall ==
    /\ header_row_found = NotFound
    /\ is_double_header = FALSE
    /\ header_matches = <<>>
    /\ returned = <<>>
    /\ calls = <<>>
    /\ start_row = 0

\* _matches_keyword has not been called on its own
NoMatch ==
    /\ match_cell = <<>>
    /\ match_keyword = <<>>
    /\ match_result = FALSE

\* HeaderDetector(quantity_mode, mapping_config) built for a sheet
Init ==
    /\ \E block \in Blocks, setup \in Setups :
          /\ worksheet = Worksheet(setup.title,
                 Shifted(block, setup.place.row_shift, setup.place.col_shift))
          /\ quantity_mode = setup.quantity_mode
          /\ mapping_config = setup.mapping_config
    /\ header_keywords = _load_header_keywords(mapping_config)
    /\ pc = "ready"
    /\ NoCall
    /\ NoMatch
    /\ NoMapping
    /\ NoPass
    /\ NoTables
    /\ NoRun

\* detector.find_headers(worksheet)
FindHeaders ==
    /\ pc = "ready"
    /\ \E out \in {find_headers(worksheet, quantity_mode, header_keywords)} :
           /\ returned' = out.returned
           /\ header_row_found' = out.header_row_found
           /\ is_double_header' = out.is_double_header
           /\ header_matches' = out.header_matches
           /\ calls' = out.calls
    /\ pc' = "found"
    /\ UNCHANGED <<layouter, runner, detector, start_row, matcher, remapper, builder>>

\* detector.calculate_start_row(header_positions) on the list found
CalculateStartRow ==
    /\ pc = "found"
    /\ start_row' = calculate_start_row(returned)
    /\ pc' = "done"
    /\ UNCHANGED <<layouter, runner, detector, header_row_found, is_double_header,
                   header_matches, returned, calls, matcher, remapper,
                   builder>>

Next == FindHeaders \/ CalculateStartRow

Spec == Init /\ [][Next]_vars

\* --------------------------------------------- the helpers called alone

\* the longest list of matches handed to a helper
MaxMatches == 3

CallLabels == {L_QUANTITY, L_ITEM}

CallRows == {5, 6}

CallColumns == {4, 5}

CallMatches ==
    {HeaderMatch(keyword, row, column) :
        keyword \in CallLabels, row \in CallRows, column \in CallColumns}

\* every list of at most MaxMatches matches
MatchLists == UNION {[1..n -> CallMatches] : n \in 0..MaxMatches}

CallTitles == {T_PACKING_LIST, T_INVOICE, T_PKL_CONTRACT}

\* a detector, a sheet and a list of matches, before any call
InitCalls ==
    /\ \E title \in CallTitles, matches \in MatchLists :
          /\ worksheet = Worksheet(title, <<RowBlank>>)
          /\ header_matches = matches
    /\ quantity_mode = TRUE
    /\ mapping_config = NoConfig
    /\ header_keywords = _load_header_keywords(mapping_config)
    /\ pc = "call"
    /\ header_row_found = NotFound
    /\ is_double_header = FALSE
    /\ returned = <<>>
    /\ calls = <<>>
    /\ start_row = 0
    /\ NoMatch
    /\ NoMapping
    /\ NoPass
    /\ NoTables
    /\ NoRun

\* detector._apply_quantity_mode_enhancement(header_matches, worksheet)
ApplyEnhancement ==
    /\ pc = "call"
    /\ \E out \in {_apply_quantity_mode_enhancement(header_matches, worksheet)} :
           /\ returned' = out.returned
           /\ header_matches' = out.argument
    /\ calls' = <<"enhancement">>
    /\ pc' = "found"
    /\ UNCHANGED <<layouter, runner, detector, header_row_found, is_double_header, start_row,
                   matcher, remapper, builder>>

NextCalls == ApplyEnhancement \/ CalculateStartRow

SpecCalls == InitCalls /\ [][NextCalls]_vars

\* ------------------------------------------- the seven-column template

\* row 3 of the template: seven bold labels
TemplateHeader ==
    <<B(L_PO), B(L_ITEM), B(L_DESCRIPTION), B(L_QTY), B(L_UNIT_PRICE),
      B(L_AMOUNT), B(L_REMARKS)>>

TemplateBlank ==
    <<BlankCell, BlankCell, BlankCell, BlankCell, BlankCell, BlankCell, BlankCell>>

TemplateTitle ==
    <<B(T_INVOICE), BlankCell, BlankCell, BlankCell, BlankCell, N(L_ABC), BlankCell>>

TemplateSub ==
    <<BlankCell, BlankCell, BlankCell, B(PCS), B(SF), BlankCell, BlankCell>>

TemplateUnits ==
    <<B(L_GOODS), B(L_TOTAL_AMOUNT), BlankCell, N(L_KG), BlankCell, BlankCell, BlankCell>>

TemplateData ==
    <<Cell(IntValue(12), FALSE), N(L_ABC), N(L_GOODS), Cell(IntValue(5), FALSE),
      N(L_NUM_DOLLARS), N(L_NUM_THOUSANDS), BlankCell>>

TemplateBold7 ==
    <<B(L_ITEM), B(L_DESCRIPTION), B(L_AMOUNT), B(L_REMARKS), B(L_PO),
      B(L_KG), B(L_ABC)>>

\* the rows a template has around its row 3, none with a 'quantity' token
TemplateRows == {TemplateBlank, TemplateTitle, TemplateSub, TemplateUnits,
                 TemplateData, TemplateBold7}

\* the rows of a template below its row 3
MaxBelow == 1

\* the templates: two rows, the header as row 3, at most MaxBelow rows
Templates ==
    {above \o <<TemplateHeader>> \o below :
        above \in [1..2 -> TemplateRows],
        below \in UNION {[1..n -> TemplateRows] : n \in 0..MaxBelow}}

\* a detector built for a template
InitTemplate ==
    /\ \E title \in {T_INVOICE, T_PACKING_LIST}, rows \in Templates :
          worksheet = Worksheet(title, rows)
    /\ quantity_mode \in BOOLEAN
    /\ mapping_config = NoConfig
    /\ header_keywords = _load_header_keywords(mapping_config)
    /\ pc = "ready"
    /\ NoCall
    /\ NoMatch
    /\ NoMapping
    /\ NoPass
    /\ NoTables
    /\ NoRun

SpecTemplate == InitTemplate /\ [][Next]_vars

\* ------------------------------------------ the keyword match called alone

\* the cell texts the match is called with
M_ITEM == <<"I","T","E","M">>

M_ITEM_PADDED == <<" ","i","t","e","m"," ">>

M_PO_DOT == <<"P",".","O",".">>

M_HS_CODE == <<"h","s","-","c","o","d","e">>

M_ITEMS == <<"I","t","e","m","s">>

M_ITEM_NO == <<"I","t","e","m"," ","N","o">>

M_NO_12 == <<"N","o",".","1","2">>

M_GOODS_20 == <<"D","e","s","c","r","i","p","t","i","o","n"," ","o","f"," ","g","o","o","d","s">>

M_GOODS_21 == <<"D","e","s","c","r","i","p","t","i","o","n"," ","o","f"," ","g","o","o","d","s","X">>

M_WEIGHT == <<"W","e","i","g","h","t">>

M_EMPTY == <<>>

M_BLANKS == <<" "," ">>

M_UNIT_PRICE == <<"U","n","i","t"," "," ","P","r","i","c","e">>

MatchCells == {M_ITEM,
               M_ITEM_PADDED,
               M_PO_DOT,
               M_HS_CODE,
               M_ITEMS,
               M_ITEM_NO,
               M_NO_12,
               M_GOODS_20,
               M_GOODS_21,
               M_WEIGHT,
               M_EMPTY,
               M_BLANKS,
               M_UNIT_PRICE}

\* the keywords the match is called with
K_ITEM == <<"I","T","E","M">>

K_PO == <<"P",".","O">>

K_HS_CODE == <<"H","S"," ","C","O","D","E">>

K_NO == <<"N","o",".">>

K_DESCRIPTION_OF == <<"D","e","s","c","r","i","p","t","i","o","n"," ","o","f">>

K_GOODS == <<"D","e","s","c","r","i","p","t","i","o","n"," ","o","f"," ","g","o","o","d","s">>

K_UNIT_PRICE == <<"U","n","i","t"," ","p","r","i","c","e">>

K_DASH == <<"-">>

K_NET == <<"N","e","t">>

MatchKeywords == {K_ITEM,
                  K_PO,
                  K_HS_CODE,
                  K_NO,
                  K_DESCRIPTION_OF,
                  K_GOODS,
                  K_UNIT_PRICE,
                  K_DASH,
                  K_NET}

\* a detector and the arguments of a call of _matches_keyword
InitMatch ==
    /\ worksheet = Worksheet(T_INVOICE, <<RowBlank>>)
    /\ quantity_mode = FALSE
    /\ mapping_config = NoConfig
    /\ header_keywords = _load_header_keywords(mapping_config)
    /\ pc = "match"
    /\ NoCall
    /\ match_cell \in MatchCells
    /\ match_keyword \in MatchKeywords
    /\ match_result = FALSE
    /\ NoMapping
    /\ NoPass
    /\ NoTables
    /\ NoRun

\* detector._matches_keyword(cell_value, keyword)
MatchesKeyword ==
    /\ pc = "match"
    /\ match_result' = _matches_keyword(match_cell, match_keyword)
    /\ pc' = "matched"
    /\ UNCHANGED <<layouter, runner, detector, header_row_found, is_double_header,
                   header_matches, returned, calls, start_row, match_cell,
                   match_keyword, remapper, builder>>

NextMatch == MatchesKeyword

SpecMatch == InitMatch /\ [][NextMatch]_vars

\* ------------------------------------------- the mappings constructed

\* the longest list of column identifiers, and the widest explicit table
MaxIds == 3

ColumnIds == {"col_po", "col_item", "col_desc"}

\* every list of at most MaxIds identifiers
IdLists == UNION {[1..n -> ColumnIds] : n \in 0..MaxIds}

\* the lists of example_auto_generate_mapping
ExampleTemplateColumns ==
    <<"col_static", "col_po", "col_item", "col_desc", "col_qty_sf",
      "col_unit_price", "col_amount">>

ExampleFilteredColumns ==
    <<"col_static", "col_po", "col_desc", "col_qty_sf", "col_amount">>

\* the table of example_with_column_mapping
ExampleTable ==
    Dict(<<IntValue(1), IntValue(2), NoneValue, IntValue(3), IntValue(4),
           NoneValue, IntValue(5)>>)

\* every table of at most MaxIds template columns
Tables ==
    {Dict(entries) : entries \in
        UNION {[1..n -> {NoneValue} \cup {IntValue(k) : k \in 1..MaxIds}] :
                  n \in 0..MaxIds}}

\* identifier lists to derive a mapping from, or a table to install
InitMapping ==
    /\ \/ /\ \/ template_ids \in IdLists /\ output_ids \in IdLists
             \/ /\ template_ids = ExampleTemplateColumns
                /\ output_ids \in {ExampleFilteredColumns, <<>>}
          /\ requested_mapping = NoDict
          /\ pc = "derive"
       \/ /\ template_ids = <<>> /\ output_ids = <<>>
          /\ requested_mapping \in Tables \cup {ExampleTable}
          /\ pc = "requested"
    /\ column_mapping = NoDict
    /\ mapping_error = "None"
    /\ worksheet = Worksheet(T_INVOICE, <<RowBlank>>)
    /\ quantity_mode = FALSE
    /\ mapping_config = NoConfig
    /\ header_keywords = _load_header_keywords(mapping_config)
    /\ NoCall
    /\ NoMatch
    /\ NoPass
    /\ NoTables
    /\ NoRun

\* mapping = generate_column_mapping_from_filtered_columns(...)
GenerateColumnMapping ==
    /\ pc = "derive"
    /\ requested_mapping' =
           generate_column_mapping_from_filtered_columns(template_ids, output_ids)
    /\ pc' = "requested"
    /\ UNCHANGED <<layouter, runner, detector, header_row_found, is_double_header,
                   header_matches, returned, calls, start_row, matcher,
                   template_ids, output_ids, column_mapping, mapping_error,
                   builder>>

\* template_state.set_column_mapping(mapping)
SetColumnMapping ==
    /\ pc = "requested"
    /\ \E out \in {set_column_mapping(requested_mapping, column_mapping)} :
           /\ column_mapping' = out.column_mapping
           /\ mapping_error' = out.raised
           /\ pc' = IF out.raised = "None" THEN "mapped" ELSE "failed"
    /\ UNCHANGED <<layouter, runner, detector, header_row_found, is_double_header,
                   header_matches, returned, calls, start_row, matcher,
                   template_ids, output_ids, requested_mapping, builder>>

NextMapping == GenerateColumnMapping \/ SetColumnMapping

SpecMapping == InitMapping /\ [][NextMapping]_vars

\* ------------------------------------------------------ the sheet pass

\* the most data rows written between header and footer
MaxDataRows == 2

\* the most times a block is replayed
MaxReplays == 2

\* a template of three columns: a title merged across the header, a row of
\* labels, a data row, and a footer row with a merged label
PassTemplateA ==
    [ws |->
       [cells |-> (<<1, 1>> :> StyledCell("INVOICE", "title"))
               @@ (<<2, 1>> :> StyledCell("Item", "bold"))
               @@ (<<2, 2>> :> StyledCell("Description", "bold"))
               @@ (<<2, 3>> :> StyledCell("Amount", "bold"))
               @@ (<<3, 1>> :> StyledCell("data", "normal"))
               @@ (<<4, 1>> :> StyledCell("Total", "bold"))
               @@ (<<4, 3>> :> StyledCell("=SUM", "number")),
        merged |-> <<MergedRange(1, 1, 1, 3), MergedRange(4, 1, 4, 2)>>,
        row_heights |-> (1 :> 30) @@ (4 :> 20)],
     layout |-> Layout(3, 2, 4)]

\* a template of three columns: a two-row header with a label merged down
\* and a label merged across, a data row, and a footer of two rows
PassTemplateB ==
    [ws |->
       [cells |-> (<<1, 1>> :> StyledCell("No", "bold"))
               @@ (<<1, 2>> :> StyledCell("Quantity", "bold"))
               @@ (<<2, 2>> :> StyledCell("PCS", "bold"))
               @@ (<<2, 3>> :> StyledCell("SF", "bold"))
               @@ (<<3, 2>> :> StyledCell("data", "normal"))
               @@ (<<4, 1>> :> StyledCell("Remarks", "italic"))
               @@ (<<5, 2>> :> StyledCell("Signature", "normal")),
        merged |-> <<MergedRange(1, 1, 2, 1), MergedRange(1, 2, 1, 3),
                     MergedRange(5, 2, 5, 3)>>,
        row_heights |-> (2 :> 18) @@ (5 :> 40)],
     layout |-> Layout(3, 2, 4)]

PassTemplates == {PassTemplateA, PassTemplateB}

\* every table over the template columns 1..num_cols
TablesOver(num_cols) ==
    {Dict(entries) : entries \in
        [1..num_cols -> {NoneValue} \cup {IntValue(k) : k \in 1..num_cols}]}

\* a template, a table to install and the number of output columns
InitPass ==
    /\ \E template \in PassTemplates :
          /\ template_ws = template.ws
          /\ layout = template.layout
    /\ requested_mapping \in TablesOver(layout.num_header_cols)
    /\ actual_num_cols \in 1..layout.num_header_cols
    /\ output_ws = EmptySheet
    /\ header_state = NoState
    /\ footer_state = NoState
    /\ data_rows = 0
    /\ captures = NoCount
    /\ replays = NoCount
    /\ template_ids = <<>>
    /\ output_ids = <<>>
    /\ column_mapping = NoDict
    /\ mapping_error = "None"
    /\ pc = "capture_header"
    /\ worksheet = Worksheet(T_INVOICE, <<RowBlank>>)
    /\ quantity_mode = FALSE
    /\ mapping_config = NoConfig
    /\ header_keywords = _load_header_keywords(mapping_config)
    /\ NoCall
    /\ NoMatch
    /\ NoTables
    /\ NoRun

\* the header captured, and the footer left uncaptured
CaptureHeaderOnly ==
    /\ pc = "capture_header"
    /\ header_state' = capture(template_ws, 1, layout.header_end_row,
                               layout.num_header_cols)
    /\ captures' = [captures EXCEPT !.header = @ + 1]
    /\ pc' = "requested"
    /\ UNCHANGED <<layouter, runner, detector, header_row_found, is_double_header,
                   header_matches, returned, calls, start_row, matcher,
                   remapper, template_ws, layout, output_ws, footer_state,
                   actual_num_cols, data_rows, replays>>

\* TemplateStateBuilder(...): the rows 1..header_end_row captured
CaptureHeader ==
    /\ pc = "capture_header"
    /\ header_state' = capture(template_ws, 1, layout.header_end_row,
                               layout.num_header_cols)
    /\ captures' = [captures EXCEPT !.header = @ + 1]
    /\ pc' = "capture_footer"
    /\ UNCHANGED <<layouter, runner, detector, header_row_found, is_double_header,
                   header_matches, returned, calls, start_row, matcher,
                   remapper, template_ws, layout, output_ws, footer_state,
                   actual_num_cols, data_rows, replays>>

\* TemplateStateBuilder(...): the rows from footer_start_row captured
CaptureFooter ==
    /\ pc = "capture_footer"
    /\ footer_state' = capture(template_ws, layout.footer_start_row,
                               LastRow(template_ws), layout.num_header_cols)
    /\ captures' = [captures EXCEPT !.footer = @ + 1]
    /\ pc' = "requested"
    /\ UNCHANGED <<layouter, runner, detector, header_row_found, is_double_header,
                   header_matches, returned, calls, start_row, matcher,
                   remapper, template_ws, layout, output_ws, header_state,
                   actual_num_cols, data_rows, replays>>

\* the header written into the template in place of the output sheet
RestoreHeaderIntoTemplate ==
    /\ pc \in {"mapped", "header_restored"}
    /\ replays.header < MaxReplays
    /\ template_ws' = replay(header_state, template_ws, 0, column_mapping,
                             actual_num_cols)
    /\ replays' = [replays EXCEPT !.header = @ + 1]
    /\ pc' = "header_restored"
    /\ UNCHANGED <<layouter, runner, detector, header_row_found, is_double_header,
                   header_matches, returned, calls, start_row, matcher,
                   remapper, output_ws, layout, header_state, footer_state,
                   actual_num_cols, data_rows, captures>>

\* restore_header_only(target_worksheet=output_ws, actual_num_cols=...)
RestoreHeader ==
    /\ pc \in {"mapped", "header_restored"}
    /\ replays.header < MaxReplays
    /\ output_ws' = replay(header_state, output_ws, 0, column_mapping,
                           actual_num_cols)
    /\ replays' = [replays EXCEPT !.header = @ + 1]
    /\ pc' = "header_restored"
    /\ UNCHANGED <<layouter, runner, detector, header_row_found, is_double_header,
                   header_matches, returned, calls, start_row, matcher,
                   remapper, template_ws, layout, header_state, footer_state,
                   actual_num_cols, data_rows, captures>>

\* the data table written by its own builder
WriteDataRows ==
    /\ pc = "header_restored"
    /\ \E row_count \in 0..MaxDataRows :
          /\ data_rows' = row_count
          /\ output_ws' =
                 [output_ws EXCEPT !.cells =
                     DataCells(layout.header_end_row + 1, row_count,
                               actual_num_cols) @@ @]
    /\ pc' = "data_written"
    /\ UNCHANGED <<layouter, runner, detector, header_row_found, is_double_header,
                   header_matches, returned, calls, start_row, matcher,
                   remapper, template_ws, layout, header_state, footer_state,
                   actual_num_cols, captures, replays>>

\* the footer replayed at the row it has in the template
TemplateFooterStart == layout.footer_start_row

\* the row the footer starts at in the output sheet: the row after the
\* data rows
OutputFooterStart == layout.header_end_row + data_rows + 1

\* restore_footer_only(target_worksheet=output_ws, footer_start_row=...,
\* actual_num_cols=...)
RestoreFooter ==
    /\ pc \in {"data_written", "completed"}
    /\ replays.footer < MaxReplays
    /\ output_ws' = replay(footer_state, output_ws,
                           OutputFooterStart - footer_state.first_row,
                           column_mapping, actual_num_cols)
    /\ replays' = [replays EXCEPT !.footer = @ + 1]
    /\ pc' = "completed"
    /\ UNCHANGED <<layouter, runner, detector, header_row_found, is_double_header,
                   header_matches, returned, calls, start_row, matcher,
                   remapper, template_ws, layout, header_state, footer_state,
                   actual_num_cols, data_rows, captures>>

NextPass ==
    \/ CaptureHeader
    \/ CaptureFooter
    \/ SetColumnMapping
    \/ RestoreHeader
    \/ WriteDataRows
    \/ RestoreFooter

SpecPass == InitPass /\ [][NextPass]_vars

\* ------------------------------------------- the tables of one sheet

\* the most tables built on one sheet
MaxTables == 2

\* the arguments a table can be built with
AllTableArgs ==
    {TableArgs(skip_header, skip_footer, row_count) :
        skip_header \in BOOLEAN, skip_footer \in BOOLEAN,
        row_count \in 1..MaxDataRows}

\* the tables accepted at construction, over the template's columns
AcceptedTables(num_cols) ==
    {table \in TablesOver(num_cols) : EntriesInOrder(table.entries, 0)}

\* the output workbook loaded from the template file, and the tables to
\* build on the sheet
InitTables ==
    /\ \E template \in PassTemplates :
          /\ template_ws = template.ws
          /\ layout = template.layout
    /\ output_ws = template_ws
    /\ column_mapping \in AcceptedTables(layout.num_header_cols)
    /\ actual_num_cols = layout.num_header_cols
    /\ tables \in UNION {[1..n -> AllTableArgs] : n \in 1..MaxTables}
    /\ table_index = 0
    /\ current_row = 0
    /\ build_log = <<>>
    /\ header_state = NoState
    /\ footer_state = NoState
    /\ data_rows = 0
    /\ captures = NoCount
    /\ replays = NoCount
    /\ template_ids = <<>>
    /\ output_ids = <<>>
    /\ requested_mapping = column_mapping
    /\ mapping_error = "None"
    /\ pc = "building"
    /\ worksheet = Worksheet(T_INVOICE, <<RowBlank>>)
    /\ quantity_mode = FALSE
    /\ mapping_config = NoConfig
    /\ header_keywords = _load_header_keywords(mapping_config)
    /\ NoCall
    /\ NoMatch
    /\ NoRun

\* layout_builder.build() for the next table: the first at row 1, a later
\* one at the row after current_row
BuildTable ==
    /\ pc = "building"
    /\ table_index < Len(tables)
    /\ \E out \in {build(template_ws, layout, output_ws,
                         IF table_index = 0 THEN 1 ELSE current_row + 1,
                         table_index + 1, column_mapping, actual_num_cols)} :
          /\ output_ws' = out.ws
          /\ current_row' = out.next_row_after_footer
          /\ build_log' = build_log \o out.written
    /\ table_index' = table_index + 1
    /\ pc' = IF table_index + 1 = Len(tables) THEN "built" ELSE "building"
    /\ UNCHANGED <<runner, detector, header_row_found, is_double_header,
                   header_matches, returned, calls, start_row, matcher,
                   remapper, template_ws, layout, header_state, footer_state,
                   actual_num_cols, data_rows, captures, replays, tables>>

NextTables == BuildTable

SpecTables == InitTables /\ [][NextTables]_vars

\* ---------------------------------------------------- the run of main

\* the most sheets the configuration names
MaxSheets == 3

SheetNames == {"Invoice", "Contract", "Packing list", "Summary"}

\* config_loader.get_data_source_type(sheet_name): None, or a type
DataSources == {"None", "aggregation", "processed_tables_multi"}

\* the sheets of the configuration that the workbook has, in their order,
\* each with its data source
SheetLists ==
    {sheets \in UNION {[1..n -> [name : SheetNames, data_source : DataSources]] :
                          n \in 0..MaxSheets} :
        \A i, j \in DOMAIN sheets : i # j => sheets[i].name # sheets[j].name}

\* main up to its try statement
InitRun ==
    /\ sheets_to_process \in SheetLists
    /\ sheet_index = 0
    /\ sheets_processed = Unbound
    /\ sheets_failed = Unbound
    /\ processing_successful = TRUE
    /\ saved = FALSE
    /\ status = "None"
    /\ error_msg = "None"
    /\ pc = "load"
    /\ worksheet = Worksheet(T_INVOICE, <<RowBlank>>)
    /\ quantity_mode = FALSE
    /\ mapping_config = NoConfig
    /\ header_keywords = _load_header_keywords(mapping_config)
    /\ NoCall
    /\ NoMatch
    /\ NoMapping
    /\ NoPass
    /\ NoTables

\* The template workbook loaded and the output workbook built: an
\* exception of either goes to the except clause; with no sheet to process
\* main exits; otherwise the two lists are bound and the loop starts.
LoadTemplate ==
    /\ pc = "load"
    /\ \E outcome \in {"loaded", "raises"} :
          IF outcome = "raises"
          THEN /\ pc' = "metadata"
               /\ UNCHANGED <<sheets_processed, sheets_failed, sheet_index>>
          ELSE IF sheets_to_process = <<>>
          THEN /\ pc' = "exited"
               /\ UNCHANGED <<sheets_processed, sheets_failed, sheet_index>>
          ELSE /\ pc' = "loop"
               /\ sheets_processed' = Bound(<<>>)
               /\ sheets_failed' = Bound(<<>>)
               /\ sheet_index' = 1
    /\ UNCHANGED <<layouter, detector, header_row_found, is_double_header,
                   header_matches, returned, calls, start_row, matcher,
                   remapper, builder, sheets_to_process,
                   processing_successful, saved, status, error_msg>>

\* one turn of the loop that leaves the loop at the first sheet that fails
ProcessSheetOrBreak ==
    /\ pc = "loop"
    /\ sheet_index <= Len(sheets_to_process)
    /\ IF sheets_to_process[sheet_index].data_source = "None"
       THEN /\ sheet_index' = sheet_index + 1
            /\ UNCHANGED <<pc, sheets_processed, sheets_failed,
                           processing_successful>>
       ELSE \E result \in {"True", "False", "raises"} :
               IF result = "raises"
               THEN /\ pc' = "metadata"
                    /\ UNCHANGED <<sheet_index, sheets_processed,
                                   sheets_failed, processing_successful>>
               ELSE IF result = "False"
               THEN /\ processing_successful' = FALSE
                    /\ sheets_failed' =
                           Bound(Append(sheets_failed.items,
                                        sheets_to_process[sheet_index].name))
                    /\ sheet_index' = Len(sheets_to_process) + 1
                    /\ UNCHANGED <<pc, sheets_processed>>
               ELSE /\ processing_successful' = TRUE
                    /\ sheets_processed' =
                           Bound(Append(sheets_processed.items,
                                        sheets_to_process[sheet_index].name))
                    /\ sheet_index' = sheet_index + 1
                    /\ UNCHANGED <<pc, sheets_failed>>
    /\ UNCHANGED <<layouter, detector, header_row_found, is_double_header,
                   header_matches, returned, calls, start_row, matcher,
                   remapper, builder, sheets_to_process, saved, status,
                   error_msg>>

\* One turn of the loop: a sheet without a data source is skipped; the
\* processor of any other sheet is made and run, and the sheet is added to
\* sheets_processed or to sheets_failed by what process() returns; an
\* exception goes to the except clause.
ProcessSheet ==
    /\ pc = "loop"
    /\ sheet_index <= Len(sheets_to_process)
    /\ IF sheets_to_process[sheet_index].data_source = "None"
       THEN /\ sheet_index' = sheet_index + 1
            /\ UNCHANGED <<pc, sheets_processed, sheets_failed,
                           processing_successful>>
       ELSE \E result \in {"True", "False", "raises"} :
               IF result = "raises"
               THEN /\ pc' = "metadata"
                    /\ UNCHANGED <<sheet_index, sheets_processed,
                                   sheets_failed, processing_successful>>
               ELSE IF result = "False"
               THEN /\ processing_successful' = FALSE
                    /\ sheets_failed' =
                           Bound(Append(sheets_failed.items,
                                        sheets_to_process[sheet_index].name))
                    /\ sheet_index' = sheet_index + 1
                    /\ UNCHANGED <<pc, sheets_processed>>
               ELSE /\ processing_successful' = TRUE
                    /\ sheets_processed' =
                           Bound(Append(sheets_processed.items,
                                        sheets_to_process[sheet_index].name))
                    /\ sheet_index' = sheet_index + 1
                    /\ UNCHANGED <<pc, sheets_failed>>
    /\ UNCHANGED <<layouter, detector, header_row_found, is_double_header,
                   header_matches, returned, calls, start_row, matcher,
                   remapper, builder, sheets_to_process, saved, status,
                   error_msg>>

\* After the loop: processing_successful = len(sheets_failed) == 0, and
\* the workbook is saved in either case; an exception of save goes to the
\* except clause.
SaveWorkbook ==
    /\ pc = "loop"
    /\ sheet_index > Len(sheets_to_process)
    /\ processing_successful' = (Len(sheets_failed.items) = 0)
    /\ \E outcome \in {"saved", "raises"} : saved' = (outcome = "saved")
    /\ pc' = "metadata"
    /\ UNCHANGED <<layouter, detector, header_row_found, is_double_header,
                   header_matches, returned, calls, start_row, matcher,
                   remapper, builder, sheets_to_process, sheet_index,
                   sheets_processed, sheets_failed, status, error_msg>>

\* After the try statement: status and error_msg from
\* processing_successful, and generate_metadata called with them and the
\* two lists; a list that was never bound is a NameError.
GenerateMetadata ==
    /\ pc = "metadata"
    /\ IF sheets_processed.bound /\ sheets_failed.bound
       THEN /\ status' = IF processing_successful THEN "success" ELSE "error"
            /\ error_msg' = IF processing_successful THEN "None"
                            ELSE "Processing completed with errors (see logs)"
            /\ pc' = "done"
       ELSE /\ pc' = "crashed"
            /\ UNCHANGED <<status, error_msg>>
    /\ UNCHANGED <<layouter, detector, header_row_found, is_double_header,
                   header_matches, returned, calls, start_row, matcher,
                   remapper, builder, sheets_to_process, sheet_index,
                   sheets_processed, sheets_failed, processing_successful,
                   saved>>

NextRun == LoadTemplate \/ ProcessSheet \/ SaveWorkbook \/ GenerateMetadata

SpecRun == InitRun /\ [][NextRun]_vars

\* ------------------------------------------- the pass of one sheet

\* the mappings of the passes: every column kept, and the second removed
PassMappings ==
    {Dict(<<IntValue(1), IntValue(2), IntValue(3)>>),
     Dict(<<IntValue(1), NoneValue, IntValue(2)>>)}

\* a validly named sheet to locate the header of, and the template, the
\* mapping and the output of the pass that follows
InitSheet ==
    /\ \E block \in Blocks :
          \E setup \in {Setup(T_PACKING_LIST, TRUE, NoConfig, AtOrigin),
                        Setup(T_PACKING_LIST, FALSE, NoConfig, AtOrigin),
                        Setup(T_INVOICE, FALSE, NoConfig, AtOrigin)} :
             /\ worksheet = Worksheet(setup.title, block)
             /\ quantity_mode = setup.quantity_mode
             /\ mapping_config = setup.mapping_config
    /\ header_keywords = _load_header_keywords(mapping_config)
    /\ pc = "ready"
    /\ template_ws = PassTemplateA.ws
    /\ layout = PassTemplateA.layout
    /\ requested_mapping \in PassMappings
    /\ actual_num_cols = layout.num_header_cols
    /\ output_ws = EmptySheet
    /\ header_state = NoState
    /\ footer_state = NoState
    /\ data_rows = 0
    /\ captures = NoCount
    /\ replays = NoCount
    /\ template_ids = <<>>
    /\ output_ids = <<>>
    /\ column_mapping = NoDict
    /\ mapping_error = "None"
    /\ NoCall
    /\ NoMatch
    /\ NoTables
    /\ NoRun

\* Failed(NotFound): find_headers returned no match, and the pass of the
\* sheet ends
SheetNotFound ==
    /\ pc = "found"
    /\ returned = <<>>
    /\ pc' = "not_found"
    /\ UNCHANGED <<layouter, runner, detector, header_row_found,
                   is_double_header, header_matches, returned, calls,
                   start_row, matcher, remapper, builder>>

\* Extracted: find_headers returned the matches, and the blocks of the
\* template are captured next
SheetExtracted ==
    /\ pc = "found"
    /\ returned # <<>>
    /\ pc' = "capture_header"
    /\ UNCHANGED <<layouter, runner, detector, header_row_found,
                   is_double_header, header_matches, returned, calls,
                   start_row, matcher, remapper, builder>>

NextSheet ==
    \/ FindHeaders
    \/ SheetNotFound
    \/ SheetExtracted
    \/ CaptureHeader
    \/ CaptureFooter
    \/ SetColumnMapping
    \/ RestoreHeader
    \/ WriteDataRows
    \/ RestoreFooter

\* the step of FindHeaders as pc shows it: the call of find_headers returns
FindHeadersReturns == pc = "ready" /\ pc' = "found"

\* the steps of the pass that follow the return of find_headers
PassSteps ==
    \/ SheetNotFound
    \/ SheetExtracted
    \/ CaptureHeader
    \/ CaptureFooter
    \/ SetColumnMapping
    \/ RestoreHeader
    \/ WriteDataRows
    \/ RestoreFooter

\* the pass is single-threaded and synchronous: the call of find_headers
\* returns, and a step that can be taken after it is taken
SpecSheet ==
    InitSheet /\ [][NextSheet]_vars /\ WF_pc(FindHeadersReturns) /\ WF_vars(PassSteps)

\* ------------------------------------- edits outside the scan window

\* the rows of the sheets edited
WindowPatterns == {RowBlank, RowQuantity3, RowSub2, RowKeywords, RowPlain3}

\* packing lists whose block lies across the last row or the last column
\* that the heuristics scan
WindowSheets ==
    {Worksheet(T_PACKING_LIST, Shifted(block, place.row_shift, place.col_shift)) :
        block \in [1..MaxRow -> WindowPatterns],
        place \in {AcrossLastRow, AcrossLastColumn}}

\* the cells an edit writes: a value or a bold flag changed
EditedCells == {BlankCell, B(PCS), N(PCS), B(L_QUANTITY), N(L_ITEM)}

InitWindow ==
    /\ worksheet \in WindowSheets
    /\ quantity_mode = FALSE
    /\ mapping_config = NoConfig
    /\ header_keywords = _load_header_keywords(mapping_config)
    /\ pc = "ready"
    /\ NoCall
    /\ NoMatch
    /\ NoMapping
    /\ NoPass
    /\ NoTables
    /\ NoRun

\* one cell in a row beyond max_rows_to_check or in a column not scanned
\* is given another value or bold flag, and the sheet is ready for
\* find_headers again; the result of the call before stays in the state
ChangeOutside ==
    /\ pc = "found"
    /\ worksheet \in WindowSheets
    /\ \E r \in 1..max_row(worksheet), c \in 1..max_column(worksheet),
          cell \in EditedCells :
          /\ r > max_rows_to_check \/ c >= ColumnScanStop
          /\ cell # WsCell(worksheet, r, c)
          /\ worksheet' = [worksheet EXCEPT !.rows[r][c] = cell]
    /\ pc' = "ready"
    /\ UNCHANGED <<quantity_mode, mapping_config, header_keywords,
                   header_row_found, is_double_header, header_matches,
                   returned, calls, start_row, matcher, remapper, builder,
                   layouter, runner>>

NextWindow == FindHeaders \/ ChangeOutside

SpecWindow == InitWindow /\ [][NextWindow]_vars

\* ------------------------------------------------------------ properties

\* find_headers has returned
Returned == pc \in {"found", "done"}

\* the sheet's lower-cased name holds one of the four sheet-type names
ValidlyNamed ==
    \E name \in {INVOICE, PACKING_LIST, DETAIL_PACKING_LIST, CONTRACT} :
        \E k \in 1..Len(worksheet.title) :
            /\ k + Len(name) - 1 <= Len(worksheet.title)
            /\ \A i \in 1..Len(name) : LowerCh(worksheet.title[k + i - 1]) = name[i]

\* the scan window: rows 1..30 and columns 1..20 of the sheet
WindowRows == {r \in 1..max_row(worksheet) : r <= 30}

WindowColumns == {c \in 1..max_column(worksheet) : c <= 20}

\* a cell that holds something other than whitespace
NonEmpty(cell) ==
    /\ cell.value.t # "None"
    /\ \E i \in 1..Len(PyStr(cell.value)) : PyStr(cell.value)[i] \notin Whitespace

\* the bold non-empty cells of row r inside the window
BoldCells(r) ==
    Cardinality({c \in WindowColumns :
        NonEmpty(WsCell(worksheet, r, c)) /\ WsCell(worksheet, r, c).bold})

\* row r qualifies: bold_count >= 3 and text_count > numeric_count
Qualifies(r) ==
    /\ BoldCells(r) >= 3
    /\ RowCounts(worksheet, r).text_count > RowCounts(worksheet, r).numeric_count

\* the cells of row r inside the window that match some keyword
KeywordCells(r) ==
    Cardinality({c \in WindowColumns :
        /\ WsCell(worksheet, r, c).value.t # "None"
        /\ IsKeywordCell(Strip(PyStr(WsCell(worksheet, r, c).value)),
                         header_keywords)})

\* C1: on a validly named sheet, a qualifying row of the scan window that
\* has strictly more bold non-empty cells than every other row of the
\* window is the header row located.
C1_BoldestRowLocated ==
    (Returned /\ ValidlyNamed) =>
        \A r \in WindowRows :
            (/\ Qualifies(r)
             /\ \A q \in WindowRows \ {r} : BoldCells(q) < BoldCells(r))
            => header_row_found = r

\* C1 happens: the second row qualifies with more bold cells than the first,
\* which qualifies too, and is located.
C1_Witness ==
    /\ Returned /\ ValidlyNamed
    /\ max_row(worksheet) = 2
    /\ Qualifies(1) /\ Qualifies(2)
    /\ BoldCells(1) < BoldCells(2)
    /\ header_row_found = 2

\* C2: among the rows that qualify for the bold heuristic, the row returned
\* has the greatest bold_count, and among those with the greatest
\* bold_count it is the lowest-numbered.
C2_MostBoldLowestRow ==
    (Returned /\ ValidlyNamed /\ \E r \in WindowRows : Qualifies(r)) =>
        /\ header_row_found \in WindowRows
        /\ Qualifies(header_row_found)
        /\ \A q \in WindowRows :
              Qualifies(q) =>
                \/ BoldCells(q) < BoldCells(header_row_found)
                \/ BoldCells(q) = BoldCells(header_row_found) /\ header_row_found <= q

\* C2 happens: two rows qualify with the same bold_count and the first is
\* returned.
C2_Witness ==
    /\ Returned /\ ValidlyNamed
    /\ \E r \in WindowRows, q \in WindowRows :
          /\ r < q /\ Qualifies(r) /\ Qualifies(q)
          /\ BoldCells(r) = BoldCells(q)
          /\ header_row_found = r

\* C3: when no row of the scan window has 3 bold cells, find_headers uses
\* the keyword heuristic: it locates the lowest-numbered row of the window
\* with at least 3 keyword cells, and with no such row it returns the empty
\* list.
C3_KeywordFallback ==
    (Returned /\ ValidlyNamed /\ \A r \in WindowRows : BoldCells(r) < 3) =>
        LET rows == {r \in WindowRows : KeywordCells(r) >= 3}
        IN  /\ Len(calls) >= 2 /\ calls[2] = "keywords"
            /\ IF rows = {}
               THEN header_row_found = NotFound /\ returned = <<>>
               ELSE /\ header_row_found \in rows
                    /\ \A q \in rows : header_row_found <= q

\* C3 happens: no row has 3 bold cells, two rows have 3 keyword cells and
\* the first of them is located.
C3_Witness ==
    /\ Returned /\ ValidlyNamed
    /\ \A r \in WindowRows : BoldCells(r) < 3
    /\ Cardinality({r \in WindowRows : KeywordCells(r) >= 3}) >= 2
    /\ header_row_found # NotFound
    /\ \A q \in WindowRows : KeywordCells(q) >= 3 => header_row_found <= q

\* C4: only a validly named sheet gets any heuristic work; for every other
\* name find_headers returns the empty list and calls none of the bold
\* heuristic, the keyword heuristic, the double-header decision, the
\* extraction and the quantity enhancement.
C4_OnlyValidSheets ==
    (Returned /\ ~ValidlyNamed) =>
        /\ returned = <<>>
        /\ calls = <<>>
        /\ header_row_found = NotFound

\* C4 happens: a sheet that is not validly named holds a row the bold
\* heuristic would locate, the detector has quantity mode on, and nothing
\* was called.
C4_Witness ==
    /\ Returned /\ ~ValidlyNamed
    /\ quantity_mode
    /\ \E r \in WindowRows : Qualifies(r)
    /\ calls = <<>>

\* every column of the sheet
AllColumns == 1..max_column(worksheet)

\* the stripped text of the cell at (r, c)
TextOf(r, c) == Strip(PyStr(WsCell(worksheet, r, c).value))

\* the non-empty cells of row r among the columns cols, the text cells
\* among them, and the short labels among those
FilledIn(r, cols) == {c \in cols : NonEmpty(WsCell(worksheet, r, c))}

TextIn(r, cols) == {c \in FilledIn(r, cols) : ~IsNumericText(TextOf(r, c))}

ShortIn(r, cols) == {c \in TextIn(r, cols) : Len(TextOf(r, c)) <= 5}

\* (1) some cell of row h among cols holds 'quantity' or 'qty'
HoldsQuantity(h, cols) ==
    \E c \in cols :
        /\ WsCell(worksheet, h, c).value.t # "None"
        /\ \/ Contains(QUANTITY, Lower(TextOf(h, c)))
           \/ Contains(QTY, Lower(TextOf(h, c)))

\* (2) row h + 1 exists
HasNextRow(h) == h + 1 <= max_row(worksheet)

\* (3) row h + 1 is majority text
NextMajorityText(h, cols) ==
    /\ Cardinality(TextIn(h + 1, cols)) > 0
    /\ Cardinality(FilledIn(h + 1, cols) \ TextIn(h + 1, cols))
           < Cardinality(TextIn(h + 1, cols))

\* the bold non-empty cells of row h + 1 among cols
NextBold(h, cols) ==
    Cardinality({c \in FilledIn(h + 1, cols) : WsCell(worksheet, h + 1, c).bold})

\* (5) the short labels of row h + 1 are at least as many as the long ones
NextShortLabels(h, cols) ==
    Cardinality(ShortIn(h + 1, cols))
        >= Cardinality(TextIn(h + 1, cols) \ ShortIn(h + 1, cols))

\* the five conditions, read over the columns cols
AllFive(h, cols) ==
    /\ HoldsQuantity(h, cols)
    /\ HasNextRow(h)
    /\ NextMajorityText(h, cols)
    /\ NextBold(h, cols) >= 2
    /\ NextShortLabels(h, cols)

Located == Returned /\ header_row_found # NotFound

\* C5 as stated: the decision for the located row is double-header exactly
\* when the five conditions hold of the rows h and h + 1, whatever the
\* column of their cells.
C5_DoubleIffAllFive ==
    Located => (is_double_header <=> AllFive(header_row_found, AllColumns))

\* C5: the decision for the located row h is double-header exactly when
\* the five conditions hold of the first 20 columns of rows h and h + 1;
\* so with any one of them false there the decision is single-header.
C5_DoubleIffAllFiveInWindow ==
    Located => (is_double_header <=> AllFive(header_row_found, WindowColumns))

\* C5 happens: the located row holds 'quantity', the next row is all short
\* text and has one bold cell, one short of the two that make it a
\* sub-header row, and the decision is single-header.
C5_Witness ==
    /\ Located
    /\ HoldsQuantity(header_row_found, WindowColumns)
    /\ HasNextRow(header_row_found)
    /\ NextMajorityText(header_row_found, WindowColumns)
    /\ NextShortLabels(header_row_found, WindowColumns)
    /\ NextBold(header_row_found, WindowColumns) = 1
    /\ max_column(worksheet) <= 20
    /\ ~is_double_header

\* the non-empty cells of row r as matches, in column order
RECURSIVE CellsAsMatches(_, _)
CellsAsMatches(r, c) ==
    IF c > max_column(worksheet) THEN <<>>
    ELSE (IF NonEmpty(WsCell(worksheet, r, c))
          THEN <<[keyword |-> TextOf(r, c), row |-> r, column |-> c]>>
          ELSE <<>>) \o CellsAsMatches(r, c + 1)

\* C6: the list extracted, before the enhancement, is one match (stripped
\* text, row, column) per non-empty cell of the located row h, in column
\* order, followed when the decision is double-header by one per non-empty
\* cell of row h + 1; no other row gives a match and no non-empty cell of
\* those rows is left out.
C6_OneMatchPerCell ==
    Located =>
        header_matches =
            CellsAsMatches(header_row_found, 1) \o
            (IF is_double_header
             THEN CellsAsMatches(header_row_found + 1, 1)
             ELSE <<>>)

\* C6 happens: a double header whose two rows have five non-empty cells,
\* one of them with padded text, gives five matches.
C6_Witness ==
    /\ Located
    /\ is_double_header
    /\ Len(header_matches) = 5
    /\ \E c \in AllColumns :
          Len(PyStr(WsCell(worksheet, header_row_found, c).value))
              > Len(TextOf(header_row_found, c))
          /\ NonEmpty(WsCell(worksheet, header_row_found, c))

\* the sheet's lower-cased name holds 'packing'
NamedPacking == Contains(PACKING, Lower(worksheet.title))

\* the sheet's lower-cased name holds 'pkl'
NamedPkl == Contains(PKL, Lower(worksheet.title))

\* the places in a list of the matches whose label holds 'quantity'
QuantityPlaces(list) ==
    {i \in 1..Len(list) : Contains(QUANTITY, Lower(list[i].keyword))}

\* the two matches synthesized below the match q
Synthesized(q) ==
    <<[keyword |-> PCS, row |-> q.row + 1, column |-> q.column],
      [keyword |-> SF, row |-> q.row + 1, column |-> q.column + 1]>>

\* the list the enhancement is to return for the list given
Enhanced(list) ==
    IF QuantityPlaces(list) = {} THEN list
    ELSE LET first == CHOOSE i \in QuantityPlaces(list) :
                          \A j \in QuantityPlaces(list) : i <= j
         IN  list \o Synthesized(list[first])

\* C7: on a packing sheet the enhancement returns the list given followed
\* by ("PCS", r+1, c) and ("SF", r+1, c+1), (r, c) being the place of the
\* first match whose label holds 'quantity', or the list given when no
\* label holds it; and the list given is the same after the call.
C7_AppendsBelowFirstQuantity ==
    [][(pc = "call" /\ NamedPacking) =>
          /\ returned' = Enhanced(header_matches)
          /\ header_matches' = header_matches]_vars

\* C7 happens: on "Packing List" a list with "Quantity" at (5, 4), then
\* another "Quantity", is returned with ("PCS", 6, 4) and ("SF", 6, 5)
\* after it, the list given still three matches long.
C7_Witness ==
    /\ pc = "found" /\ calls = <<"enhancement">>
    /\ worksheet.title = T_PACKING_LIST
    /\ Len(header_matches) = 3
    /\ Cardinality(QuantityPlaces(header_matches)) = 2
    /\ header_matches[1].keyword = L_ITEM
    /\ header_matches[2] = [keyword |-> L_QUANTITY, row |-> 5, column |-> 4]
    /\ header_matches[3].row = 6
    /\ returned = header_matches \o
                    <<[keyword |-> PCS, row |-> 6, column |-> 4],
                      [keyword |-> SF, row |-> 6, column |-> 5]>>

\* C8 as stated: on a sheet whose lower-cased name does not hold 'packing',
\* and whenever quantity_mode is off, find_headers returns the matches
\* extracted with nothing appended.
C8_OnlyPackingNames ==
    (Located /\ (~NamedPacking \/ ~quantity_mode)) => returned = header_matches

\* C8: on a sheet whose lower-cased name holds neither 'packing' nor 'pkl',
\* and whenever quantity_mode is off, find_headers returns the matches
\* extracted with nothing appended.
C8_OnlyPackingOrPklNames ==
    (Located /\ ((~NamedPacking /\ ~NamedPkl) \/ ~quantity_mode)) =>
        returned = header_matches

\* C8 happens: quantity_mode is on, the sheet is an invoice, a label
\* extracted holds 'quantity', and the list returned is the list extracted.
C8_Witness ==
    /\ Located
    /\ quantity_mode
    /\ ValidlyNamed /\ ~NamedPacking /\ ~NamedPkl
    /\ QuantityPlaces(header_matches) # {}
    /\ returned = header_matches

\* the least row of a non-empty list of matches
LeastRow(list) ==
    CHOOSE r \in {list[i].row : i \in 1..Len(list)} :
        \A i \in 1..Len(list) : r <= list[i].row

\* C9: the start row is the least row of the matches, and 1 for the empty
\* list.
C9_StartRowIsLeastRow ==
    pc = "done" =>
        start_row = (IF returned = <<>> THEN 1 ELSE LeastRow(returned))

\* C9 happens: the matches are at rows 6, 5, 6 and the start row is 5.
C9_Witness ==
    /\ pc = "done"
    /\ Len(returned) = 3
    /\ returned[1].row = 6 /\ returned[2].row = 5 /\ returned[3].row = 6
    /\ start_row = 5

\* the sheet is a 7-column template: row 3 is the seven bold labels and no
\* cell holds a 'quantity' token
SevenColumnTemplate ==
    /\ ValidlyNamed
    /\ max_column(worksheet) = 7
    /\ max_row(worksheet) >= 3
    /\ \A c \in 1..7 : WsCell(worksheet, 3, c).bold
    /\ <<TextOf(3, 1), TextOf(3, 2), TextOf(3, 3), TextOf(3, 4), TextOf(3, 5),
         TextOf(3, 6), TextOf(3, 7)>>
          = <<L_PO, L_ITEM, L_DESCRIPTION, L_QTY, L_UNIT_PRICE, L_AMOUNT,
              L_REMARKS>>
    /\ \A r \in 1..max_row(worksheet), c \in 1..7 :
          WsCell(worksheet, r, c).value.t # "None"
              => ~Contains(QUANTITY, Lower(TextOf(r, c)))

\* a single-row header of 7 matches at row 3, columns 1..7, start row 3
SevenMatchesAtRow3 ==
    /\ ~is_double_header
    /\ Len(returned) = 7
    /\ \A i \in 1..Len(returned) : returned[i].row = 3 /\ returned[i].column = i
    /\ start_row = 3

\* C10 as stated: a 7-column template is a single-row header: 7 matches,
\* all at row 3, columns 1..7, and the start row of the result is 3.
C10_TemplateSingleHeader ==
    (pc = "done" /\ SevenColumnTemplate) => SevenMatchesAtRow3

\* C10: a 7-column template of which no row above row 3 qualifies with
\* seven bold cells, and whose row 4 is absent or fails one of the
\* sub-header conditions (3) to (5), is a single-row header: 7 matches, all
\* at row 3, columns 1..7, and the start row of the result is 3.
C10_TemplateSingleHeaderUnlessSubHeader ==
    (/\ pc = "done"
     /\ SevenColumnTemplate
     /\ \A q \in {1, 2} : ~(Qualifies(q) /\ BoldCells(q) >= 7)
     /\ ~AllFive(3, WindowColumns))
    => SevenMatchesAtRow3

\* C10 happens: on a packing list with quantity mode on, the template has
\* a title row above row 3 and a data row below it; row 3 holds 'Qty', the
\* header is single and the seven matches are the seven labels.
C10_Witness ==
    /\ pc = "done"
    /\ SevenColumnTemplate
    /\ NamedPacking /\ quantity_mode
    /\ max_row(worksheet) = 4
    /\ BoldCells(1) = 1
    /\ HoldsQuantity(3, WindowColumns)
    /\ ~NextMajorityText(3, WindowColumns)
    /\ header_row_found = 3
    /\ SevenMatchesAtRow3
    /\ returned[4].keyword = L_QTY

\* the lower-cased, trimmed text of the cell and the lower-cased keyword
\* of the call of _matches_keyword
CellText == Strip(Lower(match_cell))

KeywordText == Lower(match_keyword)

\* the words of a text: its maximal runs of letters, digits and underscores
RECURSIVE WordsFrom(_, _, _)
WordsFrom(text, i, word) ==
    IF i > Len(text)
    THEN IF word = <<>> THEN <<>> ELSE <<word>>
    ELSE IF text[i] \in WordChars
    THEN WordsFrom(text, i + 1, Append(word, text[i]))
    ELSE (IF word = <<>> THEN <<>> ELSE <<word>>) \o WordsFrom(text, i + 1, <<>>)

\* (a) the two are equal
RuleEqual == CellText = KeywordText

\* (b) the two are equal once punctuation is replaced by spaces and
\* whitespace collapsed: they are made of the same words
RuleEqualCleaned ==
    WordsFrom(CellText, 1, <<>>) = WordsFrom(KeywordText, 1, <<>>)

\* (c) the cell has at most 20 characters, the keyword occurs in it and
\* is at least 60% of its length
RuleMajorPart ==
    /\ Len(CellText) <= 20
    /\ \E k \in 0..(Len(CellText) - Len(KeywordText)) :
          \A i \in 1..Len(KeywordText) : CellText[k + i] = KeywordText[i]
    /\ 10 * Len(KeywordText) >= 6 * Len(CellText)

\* C11: _matches_keyword is true exactly when the cell and the keyword are
\* equal, lower-cased and trimmed, or equal after punctuation is replaced
\* by spaces and whitespace collapsed, or the cell has at most 20
\* characters and holds the keyword as a substring of at least 60% of its
\* length; in every other case it is false.
C11_MatchIffOneOfThreeRules ==
    pc = "matched" =>
        (match_result <=> (RuleEqual \/ RuleEqualCleaned \/ RuleMajorPart))

\* C11 happens: a cell of 21 characters holds a keyword of 20 characters,
\* the two differ also when cleaned, and the match is false.
C11_Witness ==
    /\ pc = "matched"
    /\ Len(CellText) = 21 /\ Len(KeywordText) = 20
    /\ \A i \in 1..20 : CellText[i] = KeywordText[i]
    /\ ~RuleEqual /\ ~RuleEqualCleaned
    /\ ~match_result

\* the fixed compounds and the tokens that call for each
FixedCompounds ==
    {[compound |-> <<"u","n","i","t"," ","p","r","i","c","e">>,
      tokens |-> {<<"u","n","i","t">>, <<"p","r","i","c","e">>}],
     [compound |-> <<"g","r","o","s","s"," ","w","e","i","g","h","t">>,
      tokens |-> {<<"g","r","o","s","s">>, <<"w","e","i","g","h","t">>}],
     [compound |-> <<"n","e","t"," ","w","e","i","g","h","t">>,
      tokens |-> {<<"n","e","t">>, <<"w","e","i","g","h","t">>}],
     [compound |-> <<"p",".","o">>,
      tokens |-> {<<"p",".","o">>}],
     [compound |-> <<"h","s"," ","c","o","d","e">>,
      tokens |-> {<<"h","s">>, <<"c","o","d","e">>}]}

\* the compounds a label calls for: those whose tokens all occur in the
\* lower-cased label
CompoundsOf(label) ==
    {fixed.compound : fixed \in
        {f \in FixedCompounds :
            \A token \in f.tokens : Contains(token, Lower(label))}}

\* the labels of the configuration supplied
SuppliedLabels ==
    IF mapping_config.t = "dict"
    THEN {mapping_config.headers[i] : i \in 1..Len(mapping_config.headers)}
    ELSE {}

\* C12: with a configuration of at least one label the keywords of the
\* detector are those derived from the labels, the fixed compounds of each
\* label among them, and the built-in keywords are used only when no
\* configuration is supplied or it yields no keyword.
C12_KeywordsFromConfiguration ==
    SuppliedLabels # {} =>
        /\ \A label \in SuppliedLabels : CompoundsOf(label) \subseteq header_keywords
        /\ (\E label \in SuppliedLabels : CompoundsOf(label) # {})
               => header_keywords # DefaultKeywords

\* the identifier of template column i is in the output list
IsPresent(i) == InList(template_ids[i], output_ids)

\* the mapping has an entry for each of the template columns 1..n, and
\* removes every column whose identifier is absent from the output list
TotalAndAbsentRemoved(mapping) ==
    /\ mapping.t = "dict"
    /\ DOMAIN mapping.entries = 1..Len(template_ids)
    /\ \A i \in 1..Len(template_ids) :
          ~IsPresent(i) => mapping.entries[i] = NoneValue

\* the output list is the template list with the absent identifiers left out
OutputIsFilteredTemplate ==
    LET Present(col_id) == InList(col_id, output_ids)
    IN  output_ids = SelectSeq(template_ids, Present)

\* C13 as stated: the derived mapping is total over 1..n, maps a column
\* whose identifier is absent from the output list to removed, and maps a
\* column whose identifier is present to a 1-based position of that
\* identifier in the output list.
C13_PresentMappedToOutputPosition ==
    [][GenerateColumnMapping =>
        /\ TotalAndAbsentRemoved(requested_mapping')
        /\ \A i \in 1..Len(template_ids) :
              IsPresent(i) =>
                 /\ requested_mapping'.entries[i].t = "int"
                 /\ requested_mapping'.entries[i].n \in 1..Len(output_ids)
                 /\ output_ids[requested_mapping'.entries[i].n] = template_ids[i]]_vars

\* C13 amended: the derived mapping is total over 1..n, maps a column whose
\* identifier is absent from the output list to removed, and maps a column
\* whose identifier is present to its 1-based rank among the template
\* columns whose identifiers are present; that rank is a position of the
\* identifier in the output list whenever the output list is the template
\* list with the absent identifiers left out.
C13_PresentMappedToRank ==
    [][GenerateColumnMapping =>
        /\ TotalAndAbsentRemoved(requested_mapping')
        /\ \A i \in 1..Len(template_ids) :
              IsPresent(i) =>
                 /\ requested_mapping'.entries[i] =
                        IntValue(Cardinality({j \in 1..i : IsPresent(j)}))
                 /\ OutputIsFilteredTemplate =>
                        output_ids[requested_mapping'.entries[i].n] = template_ids[i]]_vars

\* the mapping of example_auto_generate_mapping has been derived
C13_Witness ==
    /\ pc = "requested"
    /\ template_ids = ExampleTemplateColumns
    /\ output_ids = ExampleFilteredColumns
    /\ requested_mapping = ExampleTable
    /\ requested_mapping.entries[4] = IntValue(3)
    /\ requested_mapping.entries[3] = NoneValue

\* the column is kept: its entry is an output column
IsKept(mapping, i) == mapping.entries[i].t = "int"

\* among the kept columns the output columns strictly increase with the
\* template column
StrictlyIncreasing(mapping) ==
    \A i, j \in DOMAIN mapping.entries :
        (i < j /\ IsKept(mapping, i) /\ IsKept(mapping, j)) =>
            mapping.entries[i].n < mapping.entries[j].n

\* C14: every mapping constructed, whether derived from identifier lists
\* (repeated identifiers included) or installed from a table without an
\* error, has output columns that strictly increase with the template
\* column among its kept entries, so no two template columns share an
\* output column.
C14_ConstructedMappingStrictlyIncreasing ==
    [][/\ GenerateColumnMapping => StrictlyIncreasing(requested_mapping')
       /\ (SetColumnMapping /\ mapping_error' = "None") =>
              StrictlyIncreasing(column_mapping')]_vars

\* a mapping derived from a template list that repeats a kept identifier
\* has been installed
C14_Witness ==
    /\ pc = "mapped"
    /\ mapping_error = "None"
    /\ \E i, j \in DOMAIN template_ids :
          /\ i < j
          /\ template_ids[i] = template_ids[j]
          /\ IsKept(column_mapping, i)
          /\ IsKept(column_mapping, j)

\* two template columns of the table have the same output column
Colliding(mapping) ==
    \E i, j \in DOMAIN mapping.entries :
        /\ i # j
        /\ IsKept(mapping, i)
        /\ IsKept(mapping, j)
        /\ mapping.entries[i].n = mapping.entries[j].n

\* the table has been handed to set_column_mapping
MappingAttempted == pc \notin {"capture_header", "capture_footer", "requested"}

\* C15: once a table in which two template columns have the same output
\* column has been handed over, the construction has failed with
\* ConfigurationError, no mapping is installed, the pass has stopped, and
\* nothing has been replayed into the output sheet.
C15_CollidingTableFailsAtConstruction ==
    (MappingAttempted /\ Colliding(requested_mapping)) =>
        /\ mapping_error = "ConfigurationError"
        /\ column_mapping = NoDict
        /\ pc = "failed"
        /\ replays = NoCount
        /\ output_ws = EmptySheet

\* a table with two columns mapped to output 1 has been refused
C15_Witness ==
    /\ pc = "failed"
    /\ mapping_error = "ConfigurationError"
    /\ \E i, j \in DOMAIN requested_mapping.entries :
          /\ i # j
          /\ requested_mapping.entries[i] = IntValue(1)
          /\ requested_mapping.entries[j] = IntValue(1)

\* the captured cells of a snapshot that the installed mapping sends to a
\* place of the output sheet, the rows moved by the offset
SourcesOf(state, row_offset, pos) ==
    {k \in 1..Len(state.cells) :
        /\ IsKept(column_mapping, state.cells[k].col)
        /\ state.cells[k].row + row_offset = pos[1]
        /\ column_mapping.entries[state.cells[k].col].n = pos[2]}

\* the places the captured cells of kept columns are sent to
TargetsOf(state, row_offset) ==
    {<<state.cells[k].row + row_offset,
       column_mapping.entries[state.cells[k].col].n>> :
        k \in {n \in 1..Len(state.cells) :
                  IsKept(column_mapping, state.cells[n].col)}}

\* The step has written the snapshot and nothing else: a place some
\* captured cell is sent to lies in the target rows, is the place of one
\* captured cell only, and holds its value and style; any other place is
\* as it was.
WrittenExactly(state, row_offset) ==
    \A pos \in DOMAIN output_ws.cells \cup DOMAIN output_ws'.cells
                  \cup TargetsOf(state, row_offset) :
        IF SourcesOf(state, row_offset, pos) # {}
        THEN /\ Cardinality(SourcesOf(state, row_offset, pos)) = 1
             /\ pos[1] \in (state.first_row + row_offset)..(state.last_row + row_offset)
             /\ pos \in DOMAIN output_ws'.cells
             /\ \A k \in SourcesOf(state, row_offset, pos) :
                   output_ws'.cells[pos] =
                       StyledCell(state.cells[k].value, state.cells[k].style)
        ELSE /\ (pos \in DOMAIN output_ws'.cells) = (pos \in DOMAIN output_ws.cells)
             /\ pos \in DOMAIN output_ws.cells =>
                   output_ws'.cells[pos] = output_ws.cells[pos]

\* C16: a replay of the header (in place) or of the footer (moved to the
\* row after the data rows) writes nothing for a captured cell of a removed
\* column and writes the value and style of every other captured cell at
\* its row moved by the offset and its mapped column; every cell written
\* lies in the target rows and holds the value and style of the one
\* captured cell mapped to it, and no other cell of the output sheet
\* changes.
C16_ReplayWritesMappedCellsOnly ==
    [][/\ RestoreHeader => WrittenExactly(header_state, 0)
       /\ RestoreFooter =>
              WrittenExactly(footer_state,
                  (layout.header_end_row + data_rows + 1)
                      - layout.footer_start_row)]_vars

\* the footer of the first template has been replayed one row down with
\* its second column removed: the formula of column 3 stands in column 2
C16_Witness ==
    /\ pc = "completed"
    /\ data_rows = MaxDataRows
    /\ column_mapping.entries[2] = NoneValue
    /\ <<layout.footer_start_row + MaxDataRows - 1, 2>> \in DOMAIN output_ws.cells
    /\ output_ws.cells[<<layout.footer_start_row + MaxDataRows - 1, 2>>] =
           StyledCell("=SUM", "number")

\* the output columns that kept template columns are mapped to
KeptImages ==
    {column_mapping.entries[c].n :
        c \in {k \in DOMAIN column_mapping.entries : IsKept(column_mapping, k)}}

\* the merged ranges of a sheet, as a set
MergedOf(ws) == {ws.merged[k] : k \in 1..Len(ws.merged)}

\* the merged range comes from a captured one, moved by the offset, and
\* spans images of kept template columns that lie within the captured
\* range's columns
ClippedFrom(region, state, row_offset) ==
    \E k \in 1..Len(state.merged) :
        /\ region.row_start = state.merged[k].row_start + row_offset
        /\ region.row_end = state.merged[k].row_end + row_offset
        /\ \E a, b \in state.merged[k].col_start..state.merged[k].col_end :
              /\ a <= b
              /\ IsKept(column_mapping, a)
              /\ IsKept(column_mapping, b)
              /\ region.col_start = column_mapping.entries[a].n
              /\ region.col_end = column_mapping.entries[b].n

\* the captured merged range cannot be emitted over the images of its own
\* boundary columns: a boundary column is removed, or it would end beyond
\* the output columns
NeedsClipping(mr) ==
    \/ ~IsKept(column_mapping, mr.col_start)
    \/ ~IsKept(column_mapping, mr.col_end)
    \/ column_mapping.entries[mr.col_end].n > actual_num_cols

\* the merged ranges a replay step has created are sound
MergesCreatedSound(state, row_offset) ==
    \A region \in MergedOf(output_ws') \ MergedOf(output_ws) :
        /\ region.col_start \in KeptImages
        /\ region.col_end \in KeptImages
        /\ 1 <= region.col_start
        /\ region.col_start <= region.col_end
        /\ region.col_end <= actual_num_cols
        /\ ClippedFrom(region, state, row_offset)

\* a captured merged range that needs clipping leaves, on its rows, either
\* no merged range or one over the longest run of its columns that are
\* kept and mapped within the output columns
ClippedToLargest(state, row_offset) ==
    \A k \in 1..Len(state.merged) :
        NeedsClipping(state.merged[k]) =>
            LET mr == state.merged[k]
                fits == {c \in mr.col_start..mr.col_end :
                            /\ IsKept(column_mapping, c)
                            /\ column_mapping.entries[c].n <= actual_num_cols}
                IsRun(a, b) == a <= b /\ \A c \in a..b : c \in fits
                made == {region \in MergedOf(output_ws') :
                            /\ region.row_start = mr.row_start + row_offset
                            /\ region.row_end = mr.row_end + row_offset
                            /\ \E a, b \in fits :
                                  /\ region.col_start = column_mapping.entries[a].n
                                  /\ region.col_end = column_mapping.entries[b].n}
            IN  \A region \in made :
                    \E a, b \in fits :
                        /\ IsRun(a, b)
                        /\ region.col_start = column_mapping.entries[a].n
                        /\ region.col_end = column_mapping.entries[b].n
                        /\ \A x, y \in fits : IsRun(x, y) => y - x <= b - a

\* C17: every merged range a replay creates in the output sheet spans, from
\* boundary to boundary, images of kept template columns within the output
\* columns 1..actual_num_cols; a captured range with a removed boundary
\* column, or ending beyond the output columns, is created over its
\* largest run of kept columns mapped within the output columns, or not at
\* all, never over its own columns.
C17_MergesClippedToKeptColumns ==
    [][/\ RestoreHeader =>
              /\ MergesCreatedSound(header_state, 0)
              /\ ClippedToLargest(header_state, 0)
       /\ RestoreFooter =>
              /\ MergesCreatedSound(footer_state,
                     (layout.header_end_row + data_rows + 1)
                         - layout.footer_start_row)
              /\ ClippedToLargest(footer_state,
                     (layout.header_end_row + data_rows + 1)
                         - layout.footer_start_row)]_vars

\* the title merged across columns 1..3 of the first template has been
\* replayed with column 1 removed: it is merged across columns 1..2
C17_Witness ==
    /\ pc = "header_restored"
    /\ column_mapping = Dict(<<NoneValue, IntValue(1), IntValue(2)>>)
    /\ actual_num_cols = 2
    /\ MergedRange(1, 1, 1, 3) \in MergedOf(template_ws)
    /\ MergedOf(output_ws) = {MergedRange(1, 1, 1, 2)}

\* C18: replaying a snapshot again, with the same mapping, offset and
\* column count, into the rows it was replayed into leaves the output sheet
\* as the first replay left it: cell values and styles, merged ranges and
\* row heights.
C18_ReplayIdempotent ==
    [][/\ (RestoreHeader /\ replays.header >= 1) =>
              /\ output_ws'.cells = output_ws.cells
              /\ output_ws'.merged = output_ws.merged
              /\ output_ws'.row_heights = output_ws.row_heights
       /\ (RestoreFooter /\ replays.footer >= 1) =>
              /\ output_ws'.cells = output_ws.cells
              /\ output_ws'.merged = output_ws.merged
              /\ output_ws'.row_heights = output_ws.row_heights]_vars

\* header and footer have both been replayed twice into a sheet that holds
\* cells, merged ranges and row heights of both
C18_Witness ==
    /\ replays.header = 2
    /\ replays.footer = 2
    /\ Len(output_ws.merged) >= 2
    /\ Cardinality(DOMAIN output_ws.row_heights) >= 2
    /\ Cardinality(DOMAIN output_ws.cells) >= 2

IsCaptured(state) == state.t = "state"

\* the output sheet has been written
OutputWritten ==
    \/ output_ws # EmptySheet
    \/ replays # NoCount
    \/ pc \in {"header_restored", "data_written", "completed"}

LastDataRow == layout.header_end_row + data_rows

FlagsOfMultiTableExample ==
    /\ Len(tables) >= 2
    /\ ~tables[1].skip_template_header_restoration
    /\ ~tables[1].skip_template_footer_restoration
    /\ \A k \in 2..Len(tables) :
          /\ tables[k].skip_template_header_restoration
          /\ ~tables[k].skip_template_footer_restoration

\* the places of the log where a block of a table was written
PlacesOf(block, table) ==
    {n \in 1..Len(build_log) : build_log[n] = Written(block, table)}

\* C22: each flag suppresses its own replay and nothing else, for each of
\* the four combinations: a table built has its header replayed exactly
\* when the header flag is not set, and its footer exactly when the footer
\* flag is not set; and once the tables of a sheet are built with the
\* flags of the multi-table example, the header has been replayed once
\* over the whole sheet and the footer only after the data rows of the
\* last table.
C22_FlagsIndependentAndFooterAfterLastTable ==
    /\ \A k \in 1..table_index :
          /\ (PlacesOf("header", k) # {}) =
                 ~tables[k].skip_template_header_restoration
          /\ (PlacesOf("footer", k) # {}) =
                 ~tables[k].skip_template_footer_restoration
          /\ PlacesOf("data", k) # {}
    /\ (pc = "built" /\ FlagsOfMultiTableExample) =>
          /\ Cardinality({n \in 1..Len(build_log) :
                             build_log[n].block = "header"}) = 1
          /\ \A n \in 1..Len(build_log) :
                build_log[n].block = "footer" =>
                    \E d \in PlacesOf("data", Len(tables)) : d < n

\* the snapshot holds a cell of a removed column, or a merged range that
\* cannot be emitted over the images of its boundary columns
HasMismatch(state) ==
    \/ \E k \in 1..Len(state.cells) : ~IsKept(column_mapping, state.cells[k].col)
    \/ \E k \in 1..Len(state.merged) : NeedsClipping(state.merged[k])

\* everything of the snapshot that has a place in the output sheet is there
\* after the step: the cells of kept columns, the merged ranges that need
\* no clipping, and the row heights
RestWritten(state, row_offset) ==
    /\ \A k \in 1..Len(state.cells) :
          IsKept(column_mapping, state.cells[k].col) =>
              LET pos == <<state.cells[k].row + row_offset,
                           column_mapping.entries[state.cells[k].col].n>>
              IN  /\ pos \in DOMAIN output_ws'.cells
                  /\ output_ws'.cells[pos] =
                         StyledCell(state.cells[k].value, state.cells[k].style)
    /\ \A k \in 1..Len(state.merged) :
          ~NeedsClipping(state.merged[k]) =>
              MergedRange(state.merged[k].row_start + row_offset,
                          column_mapping.entries[state.merged[k].col_start].n,
                          state.merged[k].row_end + row_offset,
                          column_mapping.entries[state.merged[k].col_end].n)
                  \in MergedOf(output_ws')
    /\ \A r \in DOMAIN state.row_heights :
          /\ r + row_offset \in DOMAIN output_ws'.row_heights
          /\ output_ws'.row_heights[r + row_offset] = state.row_heights[r]

\* no cell of a removed column and no merged range over its own columns
\* has been added by the step
MismatchesLeftOut(state, row_offset) ==
    /\ \A pos \in DOMAIN output_ws'.cells \ DOMAIN output_ws.cells :
          SourcesOf(state, row_offset, pos) # {}
    /\ \A k \in 1..Len(state.merged) :
          NeedsClipping(state.merged[k]) =>
              \A region \in MergedOf(output_ws') \ MergedOf(output_ws) :
                  /\ region.col_start \in KeptImages
                  /\ region.col_end \in KeptImages
                  /\ region.col_end <= actual_num_cols

SheetsTurned ==
    LET HasSource(sheet) == sheet.data_source # "None"
        turned == SelectSeq(SubSeq(sheets_to_process, 1, sheet_index - 1), HasSource)
    IN  [k \in 1..Len(turned) |-> turned[k].name]

\* the members of a list of names, as a set
NamesIn(list) == {list[k] : k \in 1..Len(list)}

\* the loop has ended by running out of sheets
LoopEnded ==
    /\ sheets_failed.bound
    /\ sheet_index > Len(sheets_to_process)

\* C24: a sheet that fails is added to sheets_failed and the loop goes on
\* with the next sheet; the sheets are taken one at a time in the
\* configured order, so that the two lists always hold, in that order and
\* each in one list only, the sheets with a data source that the loop has
\* passed; and when the loop has ended, these are all the sheets with a
\* data source.
C24_FailedSheetDoesNotAbort ==
    /\ [][(ProcessSheet /\ sheets_failed' # sheets_failed) =>
             /\ sheets_failed'.items =
                    Append(sheets_failed.items, sheets_to_process[sheet_index].name)
             /\ sheets_processed' = sheets_processed
             /\ sheet_index' = sheet_index + 1
             /\ pc' = "loop"]_vars
    /\ [](sheets_failed.bound =>
             LET InProcessed(name) == name \in NamesIn(sheets_processed.items)
                 InFailed(name) == name \in NamesIn(sheets_failed.items)
             IN  /\ sheets_processed.items = SelectSeq(SheetsTurned, InProcessed)
                 /\ sheets_failed.items = SelectSeq(SheetsTurned, InFailed)
                 /\ NamesIn(sheets_processed.items) \cap NamesIn(sheets_failed.items) = {}
                 /\ NamesIn(sheets_processed.items) \cup NamesIn(sheets_failed.items)
                        = NamesIn(SheetsTurned))
    /\ [](LoopEnded =>
             NamesIn(sheets_processed.items) \cup NamesIn(sheets_failed.items) =
                 {sheets_to_process[k].name :
                     k \in {n \in DOMAIN sheets_to_process :
                               sheets_to_process[n].data_source # "None"}})

\* the first of three sheets has failed, the second has none and the
\* third has been processed: the loop has ended with one sheet in each list
C24_Witness ==
    /\ LoopEnded
    /\ Len(sheets_to_process) = 3
    /\ sheets_to_process[2].data_source = "None"
    /\ sheets_failed.items = <<sheets_to_process[1].name>>
    /\ sheets_processed.items = <<sheets_to_process[3].name>>

\* C30: whenever generate_metadata has been reached, with or without an
\* exception before it, a status of "success" comes with an empty
\* sheets_failed and a workbook that save has written; any other status is
\* "error" with an error message.
C30_SuccessOnlyIfSavedAndNoneFailed ==
    pc = "done" =>
        IF status = "success"
        THEN sheets_failed.items = <<>> /\ saved
        ELSE status = "error" /\ error_msg # "None"

\* the keyword heuristic was called
KeywordsCalled == \E k \in 1..Len(calls) : calls[k] = "keywords"

\* C25: the heuristics are tried in the order bold, keyword, not found:
\* when some row of the window qualifies for the bold heuristic, the row
\* located is a qualifying row with the most bold cells and the keyword
\* heuristic is not called, whatever rows have 3 keyword cells; the keyword
\* heuristic is called only when the bold heuristic finds no row, and is
\* called after it.
C25_BoldBeforeKeywords ==
    (Returned /\ ValidlyNamed) =>
        /\ calls[1] = "bold"
        /\ (\E r \in WindowRows : Qualifies(r)) =>
              /\ ~KeywordsCalled
              /\ Qualifies(header_row_found)
              /\ \A q \in WindowRows :
                    Qualifies(q) => BoldCells(q) <= BoldCells(header_row_found)
        /\ KeywordsCalled =>
              /\ calls[2] = "keywords"
              /\ \A r \in WindowRows : ~Qualifies(r)

\* the first row has 3 keyword cells and does not qualify for the bold
\* heuristic, the second row qualifies, and the second row is located
C25_Witness ==
    /\ Returned /\ ValidlyNamed
    /\ max_row(worksheet) = 2
    /\ KeywordCells(1) >= 3
    /\ ~Qualifies(1)
    /\ Qualifies(2)
    /\ header_row_found = 2
    /\ ~KeywordsCalled

\* the pass of the sheet has ended
Terminal == pc \in {"completed", "not_found"}

Changed(ws_a, ws_b) ==
    {pos \in (1..max_row(ws_a)) \X (1..max_column(ws_a)) :
        WsCell(ws_a, pos[1], pos[2]) # WsCell(ws_b, pos[1], pos[2])}

\* what find_headers finds on the sheet ws
FoundOn(ws) == find_headers(ws, quantity_mode, header_keywords)

\* the located row lies in 1..min(30, max_row)
LocatedInWindow ==
    Located => header_row_found \in 1..Min(30, max_row(worksheet))

\* C27 as stated: the located row lies in 1..min(30, max_row), and a
\* change of a cell in a row beyond 30 or a column beyond 20 changes
\* neither the located row nor the double-header decision.
C27_WindowAlone ==
    /\ []LocatedInWindow
    /\ [][(pc = "found" /\ pc' = "ready") =>
             /\ FoundOn(worksheet').header_row_found = header_row_found
             /\ FoundOn(worksheet').is_double_header = is_double_header]_vars

\* C27: the located row lies in 1..min(30, max_row); a change of a cell in
\* a row beyond 30 or a column beyond 20 never changes the located row,
\* and changes the double-header decision only when the located row is 30
\* and the cell is in row 31 within the first 20 columns.
C27_WindowAndRowBelow ==
    /\ []LocatedInWindow
    /\ [][(pc = "found" /\ pc' = "ready") =>
             /\ FoundOn(worksheet').header_row_found = header_row_found
             /\ \/ FoundOn(worksheet').is_double_header = is_double_header
                \/ /\ header_row_found = 30
                   /\ \A pos \in Changed(worksheet, worksheet') :
                         pos[1] = 31 /\ pos[2] <= 20]_vars

\* C27 happens: the header was located in row 30, a double header; a cell
\* of row 31 was changed, and find_headers, called again, locates row 30
\* and finds a single header
C27_Witness ==
    /\ pc = "found"
    /\ header_row_found = 30
    /\ ~is_double_header
    /\ \E ws \in WindowSheets :
          /\ max_row(ws) = max_row(worksheet)
          /\ max_column(ws) = max_column(worksheet)
          /\ Changed(ws, worksheet) \subseteq {31} \X (1..20)
          /\ Changed(ws, worksheet) # {}
          /\ FoundOn(ws).header_row_found = 30
          /\ FoundOn(ws).is_double_header

\* C28: no two matches of a list that find_headers returns have the same
\* row and column, the synthesized PCS and SF matches included.
C28_NoSharedPosition ==
    Returned =>
        \A i, j \in 1..Len(returned) :
            (returned[i].row = returned[j].row
                /\ returned[i].column = returned[j].column) => i = j

\* C29: every match of a non-empty list that find_headers returns has the
\* located row h or h + 1 for its row, one at least has h, and
\* calculate_start_row of the list is h.
C29_MatchesInHeaderRows ==
    (Returned /\ returned # <<>>) =>
        /\ \A i \in 1..Len(returned) :
              returned[i].row \in {header_row_found, header_row_found + 1}
        /\ \E i \in 1..Len(returned) : returned[i].row = header_row_found
        /\ pc = "done" => start_row = header_row_found

====
